---------------------------- MODULE Spec2Model ----------------------------
(***************************************************************************)
(* Model of the coordinate transformation API: the transformer selector    *)
(* (get_transformer), the transform function factory                       *)
(* (get_transform_crs_fun), the GeoJSON tree walker with its bounding box  *)
(* update, and the GET /transform handler.                                 *)
(*                                                                         *)
(* The geodetic library (pyproj) is an oracle: the ranked candidate list   *)
(* of a TransformerGroup and the output of a candidate's transform         *)
(* primitive are inputs, drawn from bounded sets at the moment of the call.*)
(***************************************************************************)
EXTENDS Integers, Sequences, FiniteSets, TLC

VARIABLES
    source_crs,      \* selector: the source CRS of the call
    target_crs,      \* selector: the target CRS of the call
    epoch,           \* selector: the epoch argument (None when absent)
    tfg,             \* the ranked list the library returned for (source, target) (NotCalled before)
    selected,        \* selector: what get_transformer returned or raised (NoResult before)
    tfg_h,           \* factory: the ranked list the library returned for the horizontal leg
    tfg_v,           \* factory: the ranked list the library returned for the vertical leg
    fn,              \* factory: the transform function get_transform_crs_fun built (NoFunction before)
    precision,       \* factory: the precision argument (None when absent)
    val,             \* the position the transform function was last applied to (NoPosition before)
    raw,             \* library: raw output of the (horizontal) candidate's transform primitive
    raw_v,           \* library: raw output of the vertical candidate's transform primitive
    result,          \* what the transform function returned or raised (NoOutput before)
    response,        \* GET /transform: the response of the handler (NoResponse before)
    callback,        \* walker: the function applied to the positions
    geojson_coordinates, \* walker: the coordinates handed to traverse_geojson_coordinates
    traversed,       \* walker: what traverse_geojson_coordinates returned, and its callback calls
    body,            \* payload: the GeoJSON object of the request (NoBody before)
    body_t,          \* payload: the GeoJSON object after crs_transform or a bbox update
    coordinate_bbox, \* bbox: what get_bbox_from_coordinates returned or raised (NoEnvelope before)
    query_source_crs, \* request: the source-crs query parameter (NoneStr when absent)
    query_target_crs, \* request: the target-crs query parameter
    content_crs,     \* request: the content-crs header
    accept_crs,      \* request: the accept-crs header
    crss,            \* request: what the handler's CRS resolution returned or raised (NoCrss before)
    max_segment_deviation, \* densify: the max_segment_deviation argument (None when absent)
    densify_calls,   \* densify: the calls of crs_transform and of the library, in the order made
    densified,       \* densify: what densify_request_body returned or raised (NoDensified before)
    ranked,          \* library: the ranked list TransformerGroup answers per pair of CRSs
    get_transformer_calls, \* selector: the calls of get_transformer made so far, with what each returned or raised
    selections,      \* factory: the number of get_transformer calls made for the transform function
    applications,    \* the number of positions the transform function has been applied to
    legs,            \* splitter: what get_individual_crs_from_compound returned (NoLegs before)
    candidate,       \* needs_epoch: the candidate it is asked about
    has_epoch,       \* needs_epoch: what it returned (NoAnswer before)
    density_check,   \* POST /transform: the density-check query parameter
    post,            \* POST /transform: what the handler did and answered (NoPost before)
    max_content_size, \* size limit: the limit M of the middleware (None when not configured)
    scope_type,      \* size limit: per request, the type of its ASGI scope
    consumed,        \* size limit: per request, the messages receive() has delivered to the wrapper
    passed,          \* size limit: per request, the messages the wrapper has returned to the app
    received,        \* size limit: per request, the counter of its receive wrapper
    rejected,        \* size limit: per request, whether HTTPException(413) was raised
    timeout_seconds, \* timeout: the timeout of the middleware, in ticks of the clock
    clock,           \* timeout: the time since dispatch called wait_for
    handler,         \* timeout: where call_next(request) is: "awaiting", "returned" or "cancelled"
    computed_at,     \* timeout: the time at which the handler returned (None before)
    handler_response, \* timeout: the status of the response the handler returned (None before)
    dispatched       \* timeout: the responses dispatch has returned for the request

requestVars == <<source_crs, target_crs, epoch, precision>>
factoryVars == <<tfg_h, tfg_v, fn>>
applyVars == <<val, raw, raw_v, result>>
handlerVars == <<response>>
geoVars == <<callback, geojson_coordinates, traversed, body, body_t, coordinate_bbox>>
crssVars == <<query_source_crs, query_target_crs, content_crs, accept_crs, crss>>
densifyVars == <<max_segment_deviation, densify_calls, densified>>
callVars == <<ranked, get_transformer_calls>>
countVars == <<selections, applications>>
splitVars == <<legs>>
epochVars == <<candidate, has_epoch>>
postVars == <<density_check, post>>
limitVars == <<max_content_size, scope_type, consumed, passed, received, rejected>>
timeoutVars == <<timeout_seconds, clock, handler, computed_at, handler_response, dispatched>>
laterVars == <<epochVars, postVars, limitVars, timeoutVars>>
otherVars == <<crssVars, densifyVars, callVars, countVars, splitVars, laterVars>>

vars == <<source_crs, target_crs, epoch, tfg, selected, tfg_h, tfg_v, fn,
          precision, val, raw, raw_v, result, response,
          callback, geojson_coordinates, traversed, body, body_t, coordinate_bbox,
          otherVars>>

-----------------------------------------------------------------------------
(* Bounds of the model *)

\* longest ranked candidate list the library returns to the selector
MaxCandidates == 2

\* longest ranked candidate list the library returns to a call made by the factory
MaxFactoryCandidates == 1

\* most positions in a list of positions of the coordinates walked
MaxPositions == 2

\* most members of a GeometryCollection or a FeatureCollection
MaxMembers == 2
MaxCalls == 3

\* most operation steps of a candidate needs_epoch is asked about
MaxOperations == 2

\* most messages one request receives through the size limit middleware
MaxChunks == 2

\* the longest timeout of the timeout middleware, in ticks of the clock
MaxTimeout == 3

\* the longest time a handler computes, in ticks of the clock
MaxDuration == 4

-----------------------------------------------------------------------------
(* Python values *)

\* float("inf"); every finite ordinate of the model is smaller in magnitude
Inf == 1000000000

\* Python's None, for an optional float: a value no ordinate and no epoch takes
None == Inf + 1

\* the epochs a request carries: absent, or a decimal year
Epochs == {None, 2013}

-----------------------------------------------------------------------------
(* The CRS definitions the geodetic library resolves (pyproj CRS objects).  *)
(* A CRS is named by its AUTH:CODE; its attributes are what the code reads: *)
(* len(axis_info), is_compound, is_geocentric, sub_crs_list, and the unit    *)
(* name of its first axis.                                                  *)

ProjDb ==
    [c \in {"EPSG:28992", "EPSG:4258", "EPSG:5709", "EPSG:7415",
            "EPSG:9286", "EPSG:7931", "EPSG:7930", "EPSG:9067"} |->
        CASE c = "EPSG:28992" -> [axes |-> 2, is_compound |-> FALSE, is_geocentric |-> FALSE, sub_crs_list |-> <<>>, unit_name |-> "metre"]
          [] c = "EPSG:4258"  -> [axes |-> 2, is_compound |-> FALSE, is_geocentric |-> FALSE, sub_crs_list |-> <<>>, unit_name |-> "degree"]
          [] c = "EPSG:5709"  -> [axes |-> 1, is_compound |-> FALSE, is_geocentric |-> FALSE, sub_crs_list |-> <<>>, unit_name |-> "metre"]
          [] c = "EPSG:7415"  -> [axes |-> 3, is_compound |-> TRUE,  is_geocentric |-> FALSE, sub_crs_list |-> <<"EPSG:28992", "EPSG:5709">>, unit_name |-> "metre"]
          [] c = "EPSG:9286"  -> [axes |-> 3, is_compound |-> TRUE,  is_geocentric |-> FALSE, sub_crs_list |-> <<"EPSG:4258", "EPSG:5709">>, unit_name |-> "degree"]
          [] c = "EPSG:7931"  -> [axes |-> 3, is_compound |-> FALSE, is_geocentric |-> FALSE, sub_crs_list |-> <<>>, unit_name |-> "degree"]
          [] c = "EPSG:7930"  -> [axes |-> 3, is_compound |-> FALSE, is_geocentric |-> TRUE,  sub_crs_list |-> <<>>, unit_name |-> "metre"]
          [] c = "EPSG:9067"  -> [axes |-> 2, is_compound |-> FALSE, is_geocentric |-> FALSE, sub_crs_list |-> <<>>, unit_name |-> "degree"]]

CRSs == DOMAIN ProjDb

\* len(crs.axis_info)
axis_count(crs) == ProjDb[crs].axes

\* "{}:{}".format(*crs.to_authority())
to_authority(crs) == crs

-----------------------------------------------------------------------------
(* The exclusion table, assets/config.yaml loaded into CRS_CONFIG: the API's *)
(* CRSs are its keys, each with its "exclude-transformations" list.          *)
(* EPSG:5709 is a sub-CRS only and no key of the table.                      *)

CRS_CONFIG ==
    [c \in {"EPSG:28992", "EPSG:4258", "EPSG:7415", "EPSG:9286", "EPSG:7931", "EPSG:7930"} |->
        [exclude_transformations |-> IF c = "EPSG:7415" THEN {"EPSG:28992"} ELSE {}]]

exclude_transformation_keyless(source_crs_str, target_crs_str) ==
    \E k \in DOMAIN CRS_CONFIG : target_crs_str \in CRS_CONFIG[k].exclude_transformations

exclude_transformation_symmetric(source_crs_str, target_crs_str) ==
    \/ /\ source_crs_str \in DOMAIN CRS_CONFIG
       /\ target_crs_str \in CRS_CONFIG[source_crs_str].exclude_transformations
    \/ /\ target_crs_str \in DOMAIN CRS_CONFIG
       /\ source_crs_str \in CRS_CONFIG[target_crs_str].exclude_transformations

exclude_transformation(source_crs_str, target_crs_str) ==
    /\ source_crs_str \in DOMAIN CRS_CONFIG
    /\ target_crs_str \in CRS_CONFIG[source_crs_str].exclude_transformations

-----------------------------------------------------------------------------
(* Transformation candidates (pyproj Transformer objects), by what the code  *)
(* reads of them: the target CRS's datum type, the operation steps' type and *)
(* method code, and the source CRS: "coded" when to_authority() finds its    *)
(* code, "uncoded" when to_authority() is None.                              *)

DynamicFrame == "Dynamic Geodetic Reference Frame"
StaticFrame == "Geodetic Reference Frame"

\* a grid shift into a static frame: NTv2, method 9615
TfGrid ==
    [name |-> "grid", has_target_crs |-> TRUE, datum_type |-> StaticFrame,
     operations |-> <<[type_name |-> "Transformation", method_code |-> "9615"]>>,
     source_crs |-> "coded"]

\* a time-dependent Helmert step (method 1053) after a conversion
TfTimeDependentHelmert ==
    [name |-> "helmert-td", has_target_crs |-> TRUE, datum_type |-> StaticFrame,
     operations |-> <<[type_name |-> "Conversion", method_code |-> "9602"],
                      [type_name |-> "Transformation", method_code |-> "1053"]>>,
     source_crs |-> "coded"]

\* a static operation into a dynamic reference frame
TfDynamicTarget ==
    [name |-> "dynamic-target", has_target_crs |-> TRUE, datum_type |-> DynamicFrame,
     operations |-> <<[type_name |-> "Transformation", method_code |-> "9615"]>>,
     source_crs |-> "coded"]

\* a candidate found between CRSs the library could not identify
TfUncoded ==
    [name |-> "uncoded", has_target_crs |-> TRUE, datum_type |-> StaticFrame,
     operations |-> <<[type_name |-> "Conversion", method_code |-> "9602"]>>,
     source_crs |-> "uncoded"]

Transformers == {TfGrid, TfTimeDependentHelmert, TfDynamicTarget, TfUncoded}

\* the ranked lists a TransformerGroup can hold, up to n candidates
RankedLists(n) == UNION {[1..k -> Transformers] : k \in 0..n}

time_coordinate_operation_methodes == {"1053", "1054", "1056", "1057", "1065", "1066"}

\* needs_epoch knowing the time-dependent methods only, not the time-specific ones
needs_epoch_time_dependent_only(tf) ==
    \/ tf.has_target_crs /\ tf.datum_type = DynamicFrame
    \/ \E i \in 1..Len(tf.operations) :
          /\ tf.operations[i].type_name = "Transformation"
          /\ tf.operations[i].method_code \in {"1053", "1054", "1056", "1057"}

needs_epoch_datum_only(tf) ==
    tf.has_target_crs /\ tf.datum_type = DynamicFrame

needs_epoch(tf) ==
    \/ tf.has_target_crs /\ tf.datum_type = DynamicFrame
    \/ \E i \in 1..Len(tf.operations) :
          /\ tf.operations[i].type_name = "Transformation"
          /\ tf.operations[i].method_code \in time_coordinate_operation_methodes

-----------------------------------------------------------------------------
(* The transformer selector *)

TransformationNotPossibleError == "TransformationNotPossibleError"
DefaultReason == "no transformation path available"
EpochReason == "Transformation is not possible without an input epoch"
DimensionReason == "number of dimensions source-crs, number of dimensions target-crs"

NoTransformer == [name |-> "none"]

\* the list of a TransformerGroup that was never constructed
NotCalled == <<[name |-> "not-called"]>>

\* no call has returned yet
NoResult == [ok |-> FALSE, error |-> "pending", reason |-> "", rank |-> 0, tf |-> NoTransformer]

Raised(error, reason) ==
    [ok |-> FALSE, error |-> error, reason |-> reason, rank |-> 0, tf |-> NoTransformer]

Returned(transformers, i) ==
    [ok |-> TRUE, error |-> "", reason |-> "", rank |-> i, tf |-> transformers[i]]

\* check_axis raises when the source has fewer axes than the target
check_axis_fails_reversed(s_crs, t_crs) == axis_count(s_crs) > axis_count(t_crs)

check_axis_fails(s_crs, t_crs) == axis_count(s_crs) < axis_count(t_crs)

\* the library is asked for its candidates only past both checks
reaches_library(s_crs, t_crs) ==
    /\ ~check_axis_fails(s_crs, t_crs)
    /\ ~exclude_transformation(to_authority(s_crs), to_authority(t_crs))

\* the candidates of rank i and better that need no epoch
first_without_epoch(transformers) ==
    LET free == {i \in 1..Len(transformers) : ~needs_epoch(transformers[i])}
    IN  IF free = {} THEN 0 ELSE CHOOSE i \in free : \A j \in free : i <= j

pick_top_ranked(s_crs, t_crs, ep, transformers) ==
    IF check_axis_fails(s_crs, t_crs)
    THEN Raised(TransformationNotPossibleError, DimensionReason)
    ELSE IF exclude_transformation(to_authority(s_crs), to_authority(t_crs))
    THEN Raised(TransformationNotPossibleError, DefaultReason)
    ELSE IF Len(transformers) = 0
    THEN Raised(TransformationNotPossibleError, DefaultReason)
    ELSE Returned(transformers, 1)

pick_last_without_epoch(s_crs, t_crs, ep, transformers) ==
    LET free == {i \in 1..Len(transformers) : ~needs_epoch(transformers[i])}
    IN  IF check_axis_fails(s_crs, t_crs)
        THEN Raised(TransformationNotPossibleError, DimensionReason)
        ELSE IF exclude_transformation(to_authority(s_crs), to_authority(t_crs))
        THEN Raised(TransformationNotPossibleError, DefaultReason)
        ELSE IF Len(transformers) = 0
        THEN Raised(TransformationNotPossibleError, DefaultReason)
        ELSE IF ep = None /\ free # {}
        THEN Returned(transformers, CHOOSE i \in free : \A j \in free : i >= j)
        ELSE IF needs_epoch(transformers[1]) /\ ep = None
        THEN Raised(TransformationNotPossibleError, EpochReason)
        ELSE Returned(transformers, 1)

pick_without_epoch_always(s_crs, t_crs, ep, transformers) ==
    IF check_axis_fails(s_crs, t_crs)
    THEN Raised(TransformationNotPossibleError, DimensionReason)
    ELSE IF exclude_transformation(to_authority(s_crs), to_authority(t_crs))
    THEN Raised(TransformationNotPossibleError, DefaultReason)
    ELSE IF Len(transformers) = 0
    THEN Raised(TransformationNotPossibleError, DefaultReason)
    ELSE IF first_without_epoch(transformers) # 0
    THEN Returned(transformers, first_without_epoch(transformers))
    ELSE IF needs_epoch(transformers[1]) /\ ep = None
    THEN Raised(TransformationNotPossibleError, EpochReason)
    ELSE Returned(transformers, 1)

get_transformer(s_crs, t_crs, ep, transformers) ==
    IF check_axis_fails(s_crs, t_crs)
    THEN Raised(TransformationNotPossibleError, DimensionReason)
    ELSE IF exclude_transformation(to_authority(s_crs), to_authority(t_crs))
    THEN Raised(TransformationNotPossibleError, DefaultReason)
    ELSE IF Len(transformers) = 0
    THEN Raised(TransformationNotPossibleError, DefaultReason)
    ELSE IF ep = None /\ first_without_epoch(transformers) # 0
    THEN Returned(transformers, first_without_epoch(transformers))
    ELSE IF needs_epoch(transformers[1]) /\ ep = None
    THEN Raised(TransformationNotPossibleError, EpochReason)
    ELSE Returned(transformers, 1)

-----------------------------------------------------------------------------
(* The compound CRS splitter and the transform function factory *)

UnknownCrsError == "UnknownCrsError"

\* the largest index of sub_crs_list whose CRS has n axes, 0 when there is none
last_with_axes(compound_crs, n) ==
    LET subs == ProjDb[compound_crs].sub_crs_list
        hits == {i \in 1..Len(subs) : axis_count(subs[i]) = n}
    IN  IF hits = {} THEN 0 ELSE CHOOSE i \in hits : \A j \in hits : i >= j

HORIZONTAL_AXIS_LENGTH == 2
VERTICAL_AXIS_LENGTH == 1

\* get_individual_crs_from_compound before it is called
NoLegs == [called |-> FALSE, horizontal |-> "", vertical |-> ""]

\* get_individual_crs_from_compound that has nothing for a leg it does not find
get_individual_crs_or_nothing(compound_crs) ==
    LET subs == ProjDb[compound_crs].sub_crs_list
        h == last_with_axes(compound_crs, HORIZONTAL_AXIS_LENGTH)
        v == last_with_axes(compound_crs, VERTICAL_AXIS_LENGTH)
    IN  [horizontal |-> IF h = 0 THEN "" ELSE subs[h],
         vertical   |-> IF v = 0 THEN "" ELSE subs[v]]

\* get_individual_crs_from_compound with the two legs exchanged
get_individual_crs_swapped(compound_crs) ==
    LET subs == ProjDb[compound_crs].sub_crs_list
        h == last_with_axes(compound_crs, HORIZONTAL_AXIS_LENGTH)
        v == last_with_axes(compound_crs, VERTICAL_AXIS_LENGTH)
    IN  [horizontal |-> IF v = 0 THEN compound_crs ELSE subs[v],
         vertical   |-> IF h = 0 THEN compound_crs ELSE subs[h]]

\* (horizontal, vertical): the sub-CRS with 2 axes and the one with 1 axis,
\* each defaulting to the compound CRS itself
get_individual_crs_from_compound(compound_crs) ==
    LET subs == ProjDb[compound_crs].sub_crs_list
        h == last_with_axes(compound_crs, HORIZONTAL_AXIS_LENGTH)
        v == last_with_axes(compound_crs, VERTICAL_AXIS_LENGTH)
    IN  [horizontal |-> IF h = 0 THEN compound_crs ELSE subs[h],
         vertical   |-> IF v = 0 THEN compound_crs ELSE subs[v]]

\* a factory that splits whenever the target is compound
is_split_path_target_only(s_crs, t_crs) == ProjDb[t_crs].is_compound

\* the condition under which the factory splits the transformation; the two
\* CRS objects of a request are built by separate CRS.from_authority calls,
\* so "source_crs is not target_crs" holds at every call site
is_split_path(s_crs, t_crs) ==
    /\ ProjDb[t_crs].is_compound
    /\ ~ProjDb[s_crs].is_geocentric

\* the source and target CRS of each leg
source_crs_horizontal(s_crs) ==
    IF ProjDb[s_crs].is_compound
    THEN get_individual_crs_from_compound(s_crs).horizontal ELSE s_crs

source_crs_vertical(s_crs) ==
    IF ProjDb[s_crs].is_compound
    THEN get_individual_crs_from_compound(s_crs).vertical ELSE s_crs

target_crs_horizontal(t_crs) == get_individual_crs_from_compound(t_crs).horizontal
target_crs_vertical(t_crs) == get_individual_crs_from_compound(t_crs).vertical

\* the try block of the vertical leg raised, so the except clause runs
vertical_leg_rejected_on_error_only(v_first) == ~v_first.ok

vertical_leg_rejected(v_first) ==
    \/ ~v_first.ok
    \/ v_first.ok /\ v_first.tf.source_crs = "uncoded"

NoFunction == [path |-> "none", ok |-> FALSE, error |-> "pending", reason |-> "",
               h_transformer |-> NoResult, v_first |-> NoResult,
               fallback |-> FALSE, v_transformer |-> NoResult]

FunctionRaised(path, r, h, v_first, fallback) ==
    [path |-> path, ok |-> FALSE, error |-> r.error, reason |-> r.reason,
     h_transformer |-> h, v_first |-> v_first, fallback |-> fallback,
     v_transformer |-> NoResult]

\* get_transform_crs_fun up to the point where it returns the closure;
\* transformers_h, transformers_v and transformers are the library's ranked
\* lists for the horizontal leg, the vertical leg and the whole pair
get_transform_crs_fun_no_fallback(s_crs, t_crs, ep, transformers_h, transformers_v, transformers) ==
    IF ~is_split_path(s_crs, t_crs)
    THEN [NoFunction EXCEPT !.path = "simple", !.ok = TRUE, !.error = ""]
    ELSE IF check_axis_fails(s_crs, t_crs)
    THEN FunctionRaised("compound", Raised(TransformationNotPossibleError, DimensionReason),
                        NoResult, NoResult, FALSE)
    ELSE LET h == get_transformer(source_crs_horizontal(s_crs), target_crs_horizontal(t_crs),
                                  ep, transformers_h)
         IN  IF ~h.ok THEN FunctionRaised("compound", h, h, NoResult, FALSE)
             ELSE LET v_first == get_transformer(source_crs_vertical(s_crs),
                                                 target_crs_vertical(t_crs), ep, transformers_v)
                  IN  IF ~v_first.ok THEN FunctionRaised("compound", v_first, h, v_first, FALSE)
                      ELSE [path |-> "compound", ok |-> TRUE, error |-> "", reason |-> "",
                            h_transformer |-> h, v_first |-> v_first, fallback |-> FALSE,
                            v_transformer |-> v_first]

get_transform_crs_fun(s_crs, t_crs, ep, transformers_h, transformers_v, transformers) ==
    IF ~is_split_path(s_crs, t_crs)
    THEN [NoFunction EXCEPT !.path = "simple", !.ok = TRUE, !.error = ""]
    ELSE IF check_axis_fails(s_crs, t_crs)
    THEN FunctionRaised("compound", Raised(TransformationNotPossibleError, DimensionReason),
                        NoResult, NoResult, FALSE)
    ELSE LET h == get_transformer(source_crs_horizontal(s_crs), target_crs_horizontal(t_crs),
                                  ep, transformers_h)
         IN  IF ~h.ok THEN FunctionRaised("compound", h, h, NoResult, FALSE)
             ELSE LET v_first == get_transformer(source_crs_vertical(s_crs),
                                                 target_crs_vertical(t_crs), ep, transformers_v)
                      fallback == vertical_leg_rejected(v_first)
                      v == IF fallback
                           THEN get_transformer(s_crs, t_crs, ep, transformers)
                           ELSE v_first
                  IN  IF ~v.ok THEN FunctionRaised("compound", v, h, v_first, fallback)
                      ELSE [path |-> "compound", ok |-> TRUE, error |-> "", reason |-> "",
                            h_transformer |-> h, v_first |-> v_first, fallback |-> fallback,
                            v_transformer |-> v]

\* which TransformerGroups the factory constructs while building
asks_horizontal(s_crs, t_crs) ==
    /\ is_split_path(s_crs, t_crs)
    /\ ~check_axis_fails(s_crs, t_crs)
    /\ reaches_library(source_crs_horizontal(s_crs), target_crs_horizontal(t_crs))

horizontal_selected(s_crs, t_crs, ep, transformers_h) ==
    /\ is_split_path(s_crs, t_crs)
    /\ ~check_axis_fails(s_crs, t_crs)
    /\ get_transformer(source_crs_horizontal(s_crs), target_crs_horizontal(t_crs),
                       ep, transformers_h).ok

asks_vertical(s_crs, t_crs, ep, transformers_h) ==
    /\ horizontal_selected(s_crs, t_crs, ep, transformers_h)
    /\ reaches_library(source_crs_vertical(s_crs), target_crs_vertical(t_crs))

asks_whole_pair(s_crs, t_crs, ep, transformers_h, transformers_v) ==
    /\ horizontal_selected(s_crs, t_crs, ep, transformers_h)
    /\ vertical_leg_rejected(get_transformer(source_crs_vertical(s_crs),
                                             target_crs_vertical(t_crs), ep, transformers_v))
    /\ reaches_library(s_crs, t_crs)

-----------------------------------------------------------------------------
(* Floats. A finite float is an integer count of 10^-10 units, so that       *)
(* rounding to 4 and to 9 decimals both change a value; Inf and -Inf stand   *)
(* for the infinities.                                                       *)

RECURSIVE Pow10(_)
Pow10(n) == IF n = 0 THEN 1 ELSE 10 * Pow10(n - 1)

abs(x) == IF x < 0 THEN -x ELSE x

\* round(x, ndigits): to the nearest multiple of 10^-ndigits, ties to even
round(x, ndigits) ==
    IF abs(x) = Inf THEN x
    ELSE LET unit == Pow10(10 - ndigits)
             m == IF x < 0 THEN -x ELSE x
             q == m \div unit
             r == m % unit
             up == (2 * r > unit) \/ (2 * r = unit /\ q % 2 = 1)
             n == (IF up THEN q + 1 ELSE q) * unit
         IN  IF x < 0 THEN -n ELSE n

my_round_identity(x, prec) == x

my_round(x, prec) == IF prec = None THEN x ELSE round(x, prec)

HEIGHT_DIGITS_FOR_ROUNDING == 4
TWO_DIMENSIONAL == 2
THREE_DIMENSIONAL == 3

\* the precision arguments the callers pass: none (crs_transform), or
\* get_precision's digits for a metre and for a degree target
Precisions == {None, 4, 9}

\* the positions a transform function is applied to
Positions == {<<1000, 2000>>, <<1000, 2000, 3000>>}
NoPosition == <<>>

\* what a transform primitive computes for x, y, z (and t, which it echoes)
RawOutputs ==
    {<<123456789, 234567891, 345678912>>,
     <<555555555, 444444444, 50000>>,
     <<123456789, 234567891, 1499996>>,
     <<123456789, 234567891, Inf>>,
     <<123456789, 234567891, -Inf>>,
     <<Inf, Inf, Inf>>,
     <<-Inf, 234567891, 345678912>>,
     <<123456789, Inf, 345678912>>}
NoRaw == <<>>

\* pyproj's Transformer.transform(xx, yy, zz=None, tt=None): one output per
\* input that is given and not None, in the order x, y, z, t
primitive(out, input) ==
    LET has_z == Len(input) >= 3 /\ input[3] # None
        has_t == Len(input) >= 4 /\ input[4] # None
    IN  <<out[1], out[2]>>
        \o (IF has_z THEN <<out[3]>> ELSE <<>>)
        \o (IF has_t THEN <<input[4]>> ELSE <<>>)

\* seq[0:n]
Prefix(seq, n) == SubSeq(seq, 1, IF n < Len(seq) THEN n ELSE Len(seq))

\* [f(x) for x in seq] with my_round
RoundAll(seq, prec) == [i \in 1..Len(seq) |-> my_round(seq[i], prec)]

build_input_coord(coord, ep) ==
    IF Len(coord) = TWO_DIMENSIONAL /\ ep # None
    THEN coord \o <<0, ep>>
    ELSE coord \o <<IF Len(coord) = THREE_DIMENSIONAL /\ ep # None THEN ep ELSE None>>

NoOutput == [ok |-> FALSE, error |-> "pending", reason |-> "", position |-> <<>>,
             input |-> <<>>]

ApplyRaised(error, reason) ==
    [ok |-> FALSE, error |-> error, reason |-> reason, position |-> <<>>, input |-> <<>>]

\* the closure transform_crs of the single candidate path
transform_crs(v, s_crs, t_crs, ep, prec, transformers, out) ==
    LET transformer == get_transformer(s_crs, t_crs, ep, transformers)
    IN  IF ~transformer.ok
        THEN ApplyRaised(transformer.error, transformer.reason)
        ELSE IF ~transformer.tf.has_target_crs
        THEN ApplyRaised("ValueError", "transformer.target_crs is None")
        ELSE LET dim == axis_count(t_crs)
                 input == build_input_coord(v, ep)
                 output == RoundAll(Prefix(primitive(out, input), dim), prec)
             IN  IF dim # Len(v) /\ (TWO_DIMENSIONAL > dim /\ dim > THREE_DIMENSIONAL)
                 THEN ApplyRaised("ValueError", "dimension of target-crs should be 2 or 3")
                 ELSE [ok |-> TRUE, error |-> "", reason |-> "", input |-> input,
                       position |->
                           IF Len(output) >= THREE_DIMENSIONAL
                           THEN SubSeq(output, 1, 2)
                                \o <<my_round(output[3], HEIGHT_DIGITS_FOR_ROUNDING)>>
                           ELSE output]

\* transform_compound_crs that takes all it returns from the horizontal candidate
transform_compound_crs_horizontal_only(v, ep, prec, out_h, out_v) ==
    LET input == IF ep # None THEN v \o <<ep>> ELSE v
        h == RoundAll(primitive(out_h, input), prec)
    IN  [ok |-> TRUE, error |-> "", reason |-> "", input |-> input,
         position |-> Prefix(h, 3)]

\* the closure transform_compound_crs of the split path
transform_compound_crs(v, ep, prec, out_h, out_v) ==
    LET input == IF ep # None THEN v \o <<ep>> ELSE v
        h == RoundAll(primitive(out_h, input), prec)
        vv == RoundAll(primitive(out_v, input), HEIGHT_DIGITS_FOR_ROUNDING)
    IN  [ok |-> TRUE, error |-> "", reason |-> "", input |-> input,
         position |-> Prefix(h, 2) \o (IF Len(vv) >= 3 THEN <<vv[3]>> ELSE <<>>)]

-----------------------------------------------------------------------------
(* The GET /transform handler *)

DEFAULT_DIGITS_FOR_ROUNDING == 4

\* the number of decimals of the horizontal ordinates, by the target's unit
get_precision(t_crs) ==
    IF ProjDb[t_crs].unit_name = "degree"
    THEN DEFAULT_DIGITS_FOR_ROUNDING + 5
    ELSE DEFAULT_DIGITS_FOR_ROUNDING

\* the CRSs a request can name (CrsEnum): the CRSs the API is configured for
CrsEnum == DOMAIN CRS_CONFIG

RequestValidationError == "RequestValidationError"
ResponseValidationError == "ResponseValidationError"
DimensionsMessage == "number of coordinates must match number of dimensions of source-crs"
OutOfRangeMessage == "Out of range float values are not JSON compliant"

validate_coords_source_crs_fails(position, s_crs) == axis_count(s_crs) # Len(position)

\* transform_coordinates: applies the function transform_crs_fun, which
\* get_transform_crs_fun built with the target's precision, to the position
transform_coordinates(coordinates, s_crs, t_crs, ep, transform_crs_fun, transformers, out, out_v) ==
    IF ~transform_crs_fun.ok
    THEN ApplyRaised(transform_crs_fun.error, transform_crs_fun.reason)
    ELSE IF transform_crs_fun.path = "simple"
    THEN transform_crs(coordinates, s_crs, t_crs, ep, get_precision(t_crs),
                       transformers, out)
    ELSE transform_compound_crs(coordinates, ep, get_precision(t_crs), out, out_v)

\* whether the function built invokes a transform primitive when applied
invokes_primitive(transform_crs_fun, s_crs, t_crs, ep, transformers) ==
    /\ transform_crs_fun.ok
    /\ \/ transform_crs_fun.path = "compound"
       \/ get_transformer(s_crs, t_crs, ep, transformers).ok

\* float("inf") in [x for x in coordinates]
contains_positive_inf(coordinates) ==
    \E i \in 1..Len(coordinates) : coordinates[i] = Inf

\* float("inf") in [abs(x) for x in coordinates]
contains_inf(coordinates) ==
    \E i \in 1..Len(coordinates) : abs(coordinates[i]) = Inf

\* the height is stripped when it equals float("inf")
strip_height(transformed_coordinates) ==
    IF /\ Len(transformed_coordinates) = THREE_DIMENSIONAL
       /\ transformed_coordinates[3] = Inf
    THEN SubSeq(transformed_coordinates, 1, 2)
    ELSE transformed_coordinates

\* the headers of a response: content-crs, and epoch (None when the key is absent)
set_response_headers(t_crs, ep) == [content_crs |-> to_authority(t_crs), epoch |-> ep]
NoHeaders == [content_crs |-> "", epoch |-> None]

NoResponse == [status |-> "pending", error |-> "", detail |-> "", coordinates |-> <<>>,
               headers |-> NoHeaders]

ErrorResponse(error, detail) ==
    [status |-> "error", error |-> error, detail |-> detail, coordinates |-> <<>>,
     headers |-> NoHeaders]

\* the handler from the point where transform_coordinates has returned or
\* raised: transformed is its outcome
transform(transformed, t_crs, ep) ==
    IF ~transformed.ok
    THEN ErrorResponse(transformed.error, transformed.reason)
    ELSE IF contains_inf(strip_height(transformed.position))
    THEN ErrorResponse(ResponseValidationError, OutOfRangeMessage)
    ELSE [status |-> "ok", error |-> "", detail |-> "",
          coordinates |-> strip_height(transformed.position),
          headers |-> set_response_headers(t_crs, ep)]

-----------------------------------------------------------------------------
(* GeoJSON coordinates. A JSON value is a number n or a list of items; the   *)
(* code tells them apart with isinstance, which the model reads off the      *)
(* value's kind.                                                             *)

Num(n) == [kind |-> "number", n |-> n, items |-> <<>>]
List(s) == [kind |-> "list", n |-> 0, items |-> s]

\* isinstance(x, (float, int))
is_number(x) == x.kind = "number"

\* the JSON list of a tuple of floats, and the floats of a JSON list of numbers
Position(p) == List([i \in 1..Len(p) |-> Num(p[i])])
Ordinates(coords) == [i \in 1..Len(coords.items) |-> coords.items[i].n]

NoCoordinates == [kind |-> "none", n |-> 0, items |-> <<>>]
NoTraversal == [value |-> NoCoordinates, calls |-> <<>>]

\* The transform functions applied to the positions of a payload: what
\* get_transform_crs_fun built, as a function of the position.
\*   rotate:      a change of axes, which does not preserve the order of ordinates
\*   drop_height: a two-dimensional target
\*   height_inf:  a vertical leg outside its grid, the height comes back infinite
Callbacks == {"rotate", "drop_height", "height_inf"}

call(cb, coords) ==
    LET p == Ordinates(coords)
    IN  Position(
          CASE cb = "rotate" ->
                 IF Len(p) >= 2 THEN <<-p[2], p[1]>> \o SubSeq(p, 3, Len(p)) ELSE p
            [] cb = "drop_height" -> Prefix(p, 2)
            [] cb = "height_inf" ->
                 [i \in 1..Len(p) |-> IF i = 3 THEN Inf ELSE p[i] + 1])

RECURSIVE Concat(_)
Concat(seqs) == IF Len(seqs) = 0 THEN <<>> ELSE Head(seqs) \o Concat(Tail(seqs))

\* traverse_geojson_coordinates with "any" in the place of "all"
RECURSIVE traverse_leaf_if_any_number(_, _)
traverse_leaf_if_any_number(coords, cb) ==
    IF \E i \in 1..Len(coords.items) : is_number(coords.items[i])
    THEN [value |-> call(cb, coords), calls |-> <<coords>>]
    ELSE [value |-> List([i \in 1..Len(coords.items) |->
                            traverse_leaf_if_any_number(coords.items[i], cb).value]),
          calls |-> Concat([i \in 1..Len(coords.items) |->
                            traverse_leaf_if_any_number(coords.items[i], cb).calls])]

\* traverse_geojson_coordinates: value is what it returns, calls the arguments
\* of its callback invocations in the order they are made
RECURSIVE traverse_geojson_coordinates(_, _)
traverse_geojson_coordinates(coords, cb) ==
    IF \A i \in 1..Len(coords.items) : is_number(coords.items[i])
    THEN [value |-> call(cb, coords), calls |-> <<coords>>]
    ELSE [value |-> List([i \in 1..Len(coords.items) |->
                            traverse_geojson_coordinates(coords.items[i], cb).value]),
          calls |-> Concat([i \in 1..Len(coords.items) |->
                            traverse_geojson_coordinates(coords.items[i], cb).calls])]

\* explode: the coordinate tuples of a coordinates object, in order; a list is
\* yielded, and left, at its first element that is a number
RECURSIVE explode(_)
RECURSIVE explode_from(_, _)
explode_from(coords, i) ==
    IF i > Len(coords.items) THEN <<>>
    ELSE IF is_number(coords.items[i]) THEN <<coords>>
    ELSE explode(coords.items[i]) \o explode_from(coords, i + 1)

explode(coords) == explode_from(coords, 1)

Min(S) == CHOOSE m \in S : \A x \in S : m <= x
Max(S) == CHOOSE m \in S : \A x \in S : m >= x

\* zip(*tuples): as many columns as the shortest tuple has ordinates
zip_length(tuples) ==
    IF Len(tuples) = 0 THEN 0 ELSE Min({Len(tuples[i].items) : i \in 1..Len(tuples)})

column(tuples, k) == {tuples[i].items[k].n : i \in 1..Len(tuples)}

\* get_bbox_from_coordinates before it is called
NoEnvelope == [called |-> FALSE, ok |-> FALSE, bbox |-> <<>>]

\* get_bbox_from_coordinates that takes the first coordinate tuple for all
get_bbox_from_first_tuple(coordinates) ==
    IF zip_length(explode(coordinates)) = TWO_DIMENSIONAL
    THEN [ok |-> TRUE,
          bbox |-> Prefix(Ordinates(explode(coordinates)[1]), 2)
                   \o Prefix(Ordinates(explode(coordinates)[1]), 2)]
    ELSE IF zip_length(explode(coordinates)) = THREE_DIMENSIONAL
    THEN [ok |-> TRUE,
          bbox |-> Prefix(Ordinates(explode(coordinates)[1]), 3)
                   \o Prefix(Ordinates(explode(coordinates)[1]), 3)]
    ELSE [ok |-> FALSE, bbox |-> <<>>]

\* get_bbox_from_coordinates: the bbox, or ok = FALSE when it raises ValueError
get_bbox_from_coordinates(coordinates) ==
    IF zip_length(explode(coordinates)) = TWO_DIMENSIONAL
    THEN [ok |-> TRUE,
          bbox |-> <<Min(column(explode(coordinates), 1)), Min(column(explode(coordinates), 2)),
                     Max(column(explode(coordinates), 1)), Max(column(explode(coordinates), 2))>>]
    ELSE IF zip_length(explode(coordinates)) = THREE_DIMENSIONAL
    THEN [ok |-> TRUE,
          bbox |-> <<Min(column(explode(coordinates), 1)), Min(column(explode(coordinates), 2)),
                     Min(column(explode(coordinates), 3)),
                     Max(column(explode(coordinates), 1)), Max(column(explode(coordinates), 2)),
                     Max(column(explode(coordinates), 3))>>]
    ELSE [ok |-> FALSE, bbox |-> <<>>]

-----------------------------------------------------------------------------
(* GeoJSON objects: a geometry with its coordinates, or a GeometryCollection, *)
(* a Feature or a FeatureCollection with its members as children. bbox is    *)
(* <<>> for None. raised marks an object whose processing raised ValueError. *)

NoBbox == <<>>

\* the crs member of a FeatureCollection: None, or the name of a named CRS, a
\* URN, as the list of its parts between the colons
NoCrs == <<>>

\* str.split(":") of an AUTH:CODE string
split_auth_code(crs_auth_code) ==
    CASE crs_auth_code = "EPSG:28992" -> <<"EPSG", "28992">>
      [] crs_auth_code = "EPSG:4258" -> <<"EPSG", "4258">>
      [] crs_auth_code = "EPSG:5709" -> <<"EPSG", "5709">>
      [] crs_auth_code = "EPSG:7415" -> <<"EPSG", "7415">>
      [] crs_auth_code = "EPSG:9286" -> <<"EPSG", "9286">>
      [] crs_auth_code = "EPSG:7931" -> <<"EPSG", "7931">>
      [] crs_auth_code = "EPSG:7930" -> <<"EPSG", "7930">>
      [] crs_auth_code = "EPSG:9067" -> <<"EPSG", "9067">>

\* f"{crs_authority}:{crs_identifier}"
join_auth_code(crs_authority, crs_identifier) ==
    CHOOSE c \in CRSs : split_auth_code(c) = <<crs_authority, crs_identifier>>

\* f"urn:ogc:def:crs:{crs_auth}::{crs_identifier}", split at the colons
crs_urn(crs_auth, crs_identifier) ==
    <<"urn", "ogc", "def", "crs", crs_auth, "", crs_identifier>>

\* the crs member a client sends for a CRS
GeoJsonCrs(crs_auth_code) ==
    crs_urn(split_auth_code(crs_auth_code)[1], split_auth_code(crs_auth_code)[2])

Geometry(type, coordinates, bbox) ==
    [type |-> type, coordinates |-> coordinates, children |-> <<>>, bbox |-> bbox,
     crs |-> NoCrs, raised |-> FALSE]

GeometryCollection(geometries, bbox) ==
    [type |-> "GeometryCollection", coordinates |-> NoCoordinates, children |-> geometries,
     bbox |-> bbox, crs |-> NoCrs, raised |-> FALSE]

Feature(geometry, bbox) ==
    [type |-> "Feature", coordinates |-> NoCoordinates, children |-> <<geometry>>,
     bbox |-> bbox, crs |-> NoCrs, raised |-> FALSE]

CrsFeatureCollection(features, bbox, crs) ==
    [type |-> "FeatureCollection", coordinates |-> NoCoordinates, children |-> features,
     bbox |-> bbox, crs |-> crs, raised |-> FALSE]

\* CrsFeatureCollection.get_crs_auth_code: parts 4 and 6 of the name, counted
\* from 0, or None (NoCrs) without a crs member
get_crs_auth_code(self) ==
    IF self.crs = NoCrs THEN "" ELSE join_auth_code(self.crs[5], self.crs[7])

\* CrsFeatureCollection.set_crs_auth_code: raised marks its ValueError
set_crs_auth_code(self, crs_auth_code) ==
    IF self.crs = NoCrs
    THEN [self EXCEPT !.raised = TRUE]
    ELSE [self EXCEPT !.crs = crs_urn(split_auth_code(crs_auth_code)[1],
                                      split_auth_code(crs_auth_code)[2])]

NoBody == [type |-> "none", coordinates |-> NoCoordinates, children |-> <<>>,
           bbox |-> NoBbox, crs |-> NoCrs, raised |-> FALSE]

is_geometry(item) == item.type \notin {"GeometryCollection", "Feature", "FeatureCollection"}

\* get_coordinate_from_geometry: the list of the geometry's coordinate tuples
get_coordinate_from_geometry(item) == List(explode(item.coordinates))

\* the geometry callback of crs_transform: the geometry with its coordinates
\* walked by the transform function
mutate_geom_coordinates(cb, geom) ==
    [geom EXCEPT !.coordinates = traverse_geojson_coordinates(geom.coordinates, cb).value]

\* transform_geojson_geometries(item, get_coordinate_from_geometry): the
\* coordinate tuples of a geometry, and for an object with members the list
\* of what its members give
RECURSIVE transform_geojson_geometries(_)
transform_geojson_geometries(item) ==
    IF is_geometry(item)
    THEN get_coordinate_from_geometry(item)
    ELSE List([i \in 1..Len(item.children) |-> transform_geojson_geometries(item.children[i])])

\* update_bbox that leaves the objects with members alone
update_bbox_geometries_only(item) ==
    IF item.bbox # NoBbox /\ is_geometry(item)
    THEN [item EXCEPT !.bbox = get_bbox_from_coordinates(transform_geojson_geometries(item)).bbox]
    ELSE item

\* update_bbox: the node callback; only a bbox that is set is updated
update_bbox(item) ==
    IF item.bbox = NoBbox THEN item
    ELSE IF Len(transform_geojson_geometries(item).items) = 0
    THEN [item EXCEPT !.bbox = NoBbox]
    ELSE IF get_bbox_from_coordinates(transform_geojson_geometries(item)).ok
    THEN [item EXCEPT !.bbox = get_bbox_from_coordinates(transform_geojson_geometries(item)).bbox]
    ELSE [item EXCEPT !.raised = TRUE]

any_raised(items) == \E i \in 1..Len(items) : items[i].raised

\* traverse_geojson_geometries(geojson, geometry_callback, update_bbox) of the
\* geodense library: a copy of the object in which the geometry callback has
\* been applied to every geometry (cb = "none" for no geometry callback) and
\* then the node callback to every object, the members before their parent
RECURSIVE traverse_geojson_geometries(_, _)
traverse_geojson_geometries(geojson, cb) ==
    IF is_geometry(geojson)
    THEN update_bbox(IF cb = "none" THEN geojson ELSE mutate_geom_coordinates(cb, geojson))
    ELSE IF any_raised([i \in 1..Len(geojson.children) |->
                          traverse_geojson_geometries(geojson.children[i], cb)])
    THEN [geojson EXCEPT !.raised = TRUE]
    ELSE update_bbox([geojson EXCEPT !.children =
                         [i \in 1..Len(geojson.children) |->
                            traverse_geojson_geometries(geojson.children[i], cb)]])

\* crs_transform that leaves the crs member as the client sent it
crs_transform_keeps_crs(geojson, cb, t_crs) == traverse_geojson_geometries(geojson, cb)

\* crs_transform with the transform function built: the object walked, and a
\* FeatureCollection tagged with the target CRS; nothing is tagged when the
\* walk raised
crs_transform(geojson, cb, t_crs) ==
    IF traverse_geojson_geometries(geojson, cb).raised
    THEN traverse_geojson_geometries(geojson, cb)
    ELSE IF traverse_geojson_geometries(geojson, cb).type = "FeatureCollection"
    THEN set_crs_auth_code(traverse_geojson_geometries(geojson, cb), to_authority(t_crs))
    ELSE traverse_geojson_geometries(geojson, cb)

\* rec_fun of update_bbox_geojson_object: the list it returns
RECURSIVE rec_fun_coords(_)
rec_fun_coords(geojson_obj) ==
    IF geojson_obj.type = "Feature"
    THEN rec_fun_coords(geojson_obj.children[1])
    ELSE IF is_geometry(geojson_obj)
    THEN get_coordinate_from_geometry(geojson_obj)
    ELSE List([i \in 1..Len(geojson_obj.children) |-> rec_fun_coords(geojson_obj.children[i])])

\* update_bbox_geojson_object: the object after rec_fun has gone through it
RECURSIVE update_bbox_geojson_object(_)
update_bbox_geojson_object(geojson_obj) ==
    IF any_raised([i \in 1..Len(geojson_obj.children) |->
                     update_bbox_geojson_object(geojson_obj.children[i])])
    THEN [geojson_obj EXCEPT !.raised = TRUE]
    ELSE IF geojson_obj.bbox = NoBbox
    THEN [geojson_obj EXCEPT !.children =
             [i \in 1..Len(geojson_obj.children) |->
                update_bbox_geojson_object(geojson_obj.children[i])]]
    ELSE IF get_bbox_from_coordinates(rec_fun_coords(geojson_obj)).ok
    THEN [geojson_obj EXCEPT
             !.children = [i \in 1..Len(geojson_obj.children) |->
                             update_bbox_geojson_object(geojson_obj.children[i])],
             !.bbox = get_bbox_from_coordinates(rec_fun_coords(geojson_obj)).bbox]
    ELSE [geojson_obj EXCEPT !.raised = TRUE]

-----------------------------------------------------------------------------
(* The coordinates and the payloads of the model *)

\* the positions a coordinates array is made of
PositionPool ==
    {Position(<<10, 20>>), Position(<<30, -40>>), Position(<<10, 20, 5>>),
     Position(<<-50, 60, 9>>), Position(<<70>>), Position(<<1, 2, 3, 4>>)}

\* a list of positions: the coordinates of a MultiPoint or a LineString
PositionLists == {List(s) : s \in UNION {[1..k -> PositionPool] : k \in 0..MaxPositions}}

ShortPositionLists == {c \in PositionLists : Len(c.items) <= 1}

\* a list of lists of positions: the coordinates of a Polygon or a MultiLineString
RingLists ==
    {List(<<>>)} \cup {List(<<a>>) : a \in PositionLists}
    \cup {List(<<a, b>>) : a \in ShortPositionLists, b \in ShortPositionLists}

\* the coordinates of a MultiPolygon
PolygonLists ==
    {List(<<a>>) : a \in RingLists}
    \cup {List(<<List(<<List(<<a>>)>>), List(<<List(<<b>>)>>)>>) : a \in PositionPool, b \in PositionPool}

CoordinateTrees == PositionPool \cup PositionLists \cup RingLists \cup PolygonLists

\* the bbox a client sends along, to be replaced
StaleBbox == <<0, 0, 0, 0>>
Bboxes == {NoBbox, StaleBbox}

Point2D(bbox) == Geometry("Point", Position(<<10, 20>>), bbox)
Point3D(bbox) == Geometry("Point", Position(<<-50, 60, 9>>), bbox)
LineString2D(bbox) ==
    Geometry("LineString", List(<<Position(<<10, 20>>), Position(<<30, -40>>)>>), bbox)
Polygon3D(bbox) ==
    Geometry("Polygon",
             List(<<List(<<Position(<<10, 20, 5>>), Position(<<30, -40, 7>>),
                           Position(<<-50, 60, 9>>), Position(<<10, 20, 5>>)>>)>>), bbox)

Geometries ==
    UNION {{Point2D(b), Point3D(b), LineString2D(b), Polygon3D(b)} : b \in Bboxes}

GeometryCollections ==
    {GeometryCollection(g, b) :
        g \in UNION {[1..k -> Geometries] : k \in 1..MaxMembers}, b \in Bboxes}

SmallGeometryCollections ==
    {GeometryCollection(<<Point2D(StaleBbox), g>>, b) :
        g \in {LineString2D(NoBbox), Point3D(StaleBbox)}, b \in Bboxes}

Features ==
    {Feature(g, b) : g \in Geometries \cup SmallGeometryCollections, b \in Bboxes}

SmallFeatures ==
    {Feature(Point2D(StaleBbox), StaleBbox),
     Feature(LineString2D(NoBbox), NoBbox),
     Feature(Polygon3D(StaleBbox), NoBbox),
     Feature(GeometryCollection(<<LineString2D(StaleBbox), Point3D(NoBbox)>>, StaleBbox),
             StaleBbox)}

\* a FeatureCollection comes without a crs member or names a CRS of the API
FeatureCollections ==
    {CrsFeatureCollection(f, b, c) :
        f \in UNION {[1..k -> SmallFeatures] : k \in 1..MaxMembers}, b \in Bboxes,
        c \in {NoCrs, GeoJsonCrs("EPSG:28992"), GeoJsonCrs("EPSG:4258")}}

Payloads == Geometries \cup GeometryCollections \cup Features \cup FeatureCollections

GeoIdle ==
    /\ callback = "none"
    /\ geojson_coordinates = NoCoordinates
    /\ traversed = NoTraversal
    /\ body = NoBody
    /\ body_t = NoBody
    /\ coordinate_bbox = NoEnvelope

-----------------------------------------------------------------------------
(* The CRSs of a request: a CRS string of the request is modelled by its     *)
(* form and by the authority and the code it spells; None is NoneStr.        *)

NoneStr == [form |-> "none", auth |-> "", code |-> ""]

\* a value of CrsEnum: AUTH:CODE
auth_code_str(crs) ==
    [form |-> "code", auth |-> split_auth_code(crs)[1], code |-> split_auth_code(crs)[2]]

\* format_as_uri, a value of CrsHeaderEnum: http://www.opengis.net/def/crs/AUTH/0/CODE
format_as_uri(crs) ==
    [form |-> "uri", auth |-> split_auth_code(crs)[1], code |-> split_auth_code(crs)[2]]

\* extract_authority_code: groups 2 and 4 of the regular expression, which
\* matches both forms
extract_authority_code(crs) == <<crs.auth, crs.code>>

\* CRS.from_authority
from_authority(auth_code) == join_auth_code(auth_code[1], auth_code[2])

\* get_source_crs_body, for the GeoJSON objects
get_source_crs_body(geojson) ==
    IF geojson.type = "FeatureCollection" /\ geojson.crs # NoCrs
    THEN auth_code_str(get_crs_auth_code(geojson))
    ELSE NoneStr

\* get_source_crs with the query parameter before the body
get_source_crs_query_first(geojson, source_crs_str, content_crs_str) ==
    IF source_crs_str # NoneStr THEN source_crs_str
    ELSE IF get_source_crs_body(geojson) # NoneStr THEN get_source_crs_body(geojson)
    ELSE content_crs_str

get_source_crs(geojson, source_crs_str, content_crs_str) ==
    IF get_source_crs_body(geojson) # NoneStr THEN get_source_crs_body(geojson)
    ELSE IF source_crs_str # NoneStr THEN source_crs_str
    ELSE IF content_crs_str # NoneStr THEN content_crs_str
    ELSE NoneStr

NoSourceCrsBodyMessage ==
    "No source CRS found in request. Defining a source CRS is required through the provided object a query parameter source-crs or header content-crs"
NoSourceCrsMessage ==
    "No source CRS found in request. Defining a source CRS is required through the query parameter source-crs or header content-crs"
NoTargetCrsMessage ==
    "No target CRS found in request. Defining a target CRS is required through the query parameter target-crs or header accept-crs"

NoCrss == [called |-> FALSE, ok |-> FALSE, error |-> "", detail |-> "", s_crs |-> "", t_crs |-> ""]

CrssRaised(detail) ==
    [called |-> TRUE, ok |-> FALSE, error |-> RequestValidationError, detail |-> detail,
     s_crs |-> "", t_crs |-> ""]

CrssReturned(s_crs_str, t_crs_str) ==
    [called |-> TRUE, ok |-> TRUE, error |-> "", detail |-> "",
     s_crs |-> from_authority(extract_authority_code(s_crs_str)),
     t_crs |-> from_authority(extract_authority_code(t_crs_str))]

post_transform_get_crss(geojson, source_crs_str, target_crs_str, content_crs_str, accept_crs_str) ==
    IF get_source_crs(geojson, source_crs_str, content_crs_str) = NoneStr
    THEN CrssRaised(IF geojson.type = "FeatureCollection"
                    THEN NoSourceCrsBodyMessage ELSE NoSourceCrsMessage)
    ELSE IF target_crs_str # NoneStr
    THEN CrssReturned(get_source_crs(geojson, source_crs_str, content_crs_str), target_crs_str)
    ELSE IF accept_crs_str # NoneStr
    THEN CrssReturned(get_source_crs(geojson, source_crs_str, content_crs_str), accept_crs_str)
    ELSE CrssRaised(NoTargetCrsMessage)

get_transform_get_crss(source_crs_str, target_crs_str, content_crs_str, accept_crs_str) ==
    IF source_crs_str = NoneStr /\ content_crs_str = NoneStr
    THEN CrssRaised(NoSourceCrsMessage)
    ELSE IF target_crs_str = NoneStr /\ accept_crs_str = NoneStr
    THEN CrssRaised(NoTargetCrsMessage)
    ELSE CrssReturned(IF source_crs_str # NoneStr THEN source_crs_str ELSE content_crs_str,
                      IF target_crs_str # NoneStr THEN target_crs_str ELSE accept_crs_str)

\* the query parameters and the headers a client may send
QueryCrss == {NoneStr, auth_code_str("EPSG:28992"), auth_code_str("EPSG:7415")}
HeaderCrss == {NoneStr, format_as_uri("EPSG:4258"), format_as_uri("EPSG:7931")}

\* the bodies of a POST /transform
PostBodies ==
    {Point2D(NoBbox), Feature(LineString2D(NoBbox), NoBbox)}
    \cup {CrsFeatureCollection(<<Feature(Point2D(NoBbox), NoBbox)>>, NoBbox, c) :
             c \in {NoCrs, GeoJsonCrs("EPSG:9286"), GeoJsonCrs("EPSG:28992")}}

CrssIdle ==
    /\ query_source_crs = NoneStr
    /\ query_target_crs = NoneStr
    /\ content_crs = NoneStr
    /\ accept_crs = NoneStr
    /\ crss = NoCrss

-----------------------------------------------------------------------------
(* densify_request_body. The objects it passes on are named by the local     *)
(* variable that holds them; what request_body_within_valid_bbox, the two    *)
(* crs_transform calls and the library answer is drawn when it is called.    *)

DENSIFY_CRS_2D == "EPSG:9067"
DENSIFY_CRS_3D == "EPSG:7931"

UnboundLocalError == "UnboundLocalError"
DeviationOutOfBboxError == "DeviationOutOfBboxError"
DensifyError == "DensifyError"

NoDensified == [called |-> FALSE, ok |-> FALSE, error |-> "", value |-> ""]
DensifyRaised(error) == [called |-> TRUE, ok |-> FALSE, error |-> error, value |-> ""]
DensifyReturned(value) == [called |-> TRUE, ok |-> TRUE, error |-> "", value |-> value]

\* a call of crs_transform(arg, s_crs, t_crs)
CrsTransformCall(arg, s_crs, t_crs) ==
    [op |-> "crs_transform", arg |-> arg, s_crs |-> s_crs, t_crs |-> t_crs]

\* a call of densify_geojson_object(DenseConfig(crs, ...), arg)
DensifyCall(arg, crs) ==
    [op |-> "densify_geojson_object", arg |-> arg, s_crs |-> crs, t_crs |-> crs]

\* what request_body_within_valid_bbox can answer, TransformationNotPossibleError
\* being raised by get_transform_crs_fun
BboxChecks == {"within", "outside", TransformationNotPossibleError}

\* request_body_within_valid_bbox(body, source_crs): TRUE or FALSE as the
\* bbox check answers, or the error raised; body_bbox_t is bound only when the
\* source CRS is not a densification CRS, and body_t only when body.bbox is None
request_body_within_valid_bbox(geojson, s_crs, bbox_check) ==
    IF s_crs \in {DENSIFY_CRS_2D, DENSIFY_CRS_3D} THEN UnboundLocalError
    ELSE IF bbox_check = TransformationNotPossibleError THEN TransformationNotPossibleError
    ELSE IF geojson.bbox # NoBbox THEN UnboundLocalError
    ELSE bbox_check

\* bbox_check_deviation_set: the error it raises, "" when it returns
bbox_check_deviation_set(geojson, s_crs, deviation, bbox_check) ==
    IF deviation = None THEN ""
    ELSE IF request_body_within_valid_bbox(geojson, s_crs, bbox_check) = "within" THEN ""
    ELSE IF request_body_within_valid_bbox(geojson, s_crs, bbox_check) = "outside"
    THEN DeviationOutOfBboxError
    ELSE request_body_within_valid_bbox(geojson, s_crs, bbox_check)

\* transform_crs of densify_request_body
densify_crs(s_crs) ==
    IF axis_count(s_crs) = THREE_DIMENSIONAL THEN DENSIFY_CRS_3D ELSE DENSIFY_CRS_2D

\* transform of densify_request_body
densify_transforms(s_crs) == s_crs \notin {DENSIFY_CRS_3D, DENSIFY_CRS_2D}

\* the calls densify_request_body makes when none of them raises
densify_calls_made(s_crs) ==
    IF densify_transforms(s_crs)
    THEN <<CrsTransformCall("body", s_crs, densify_crs(s_crs)),
           DensifyCall("body_t", densify_crs(s_crs)),
           CrsTransformCall("body_t_d", densify_crs(s_crs), s_crs)>>
    ELSE <<DensifyCall("body", densify_crs(s_crs))>>

\* densify_calls_made with the densification before the first transformation
densify_calls_densify_first(s_crs) ==
    IF densify_transforms(s_crs)
    THEN <<DensifyCall("body", densify_crs(s_crs)),
           CrsTransformCall("body_t", s_crs, densify_crs(s_crs)),
           CrsTransformCall("body_t_d", densify_crs(s_crs), s_crs)>>
    ELSE <<DensifyCall("body", densify_crs(s_crs))>>

\* the error call i of made raises, "" when it returns
answer_to(made, i, answers) ==
    IF made[i].op = "densify_geojson_object" THEN answers.densify
    ELSE IF i = 1 THEN answers.transform ELSE answers.transform_back

\* the index of the call that raises: the first call answered with an error,
\* 0 when there is none
first_raising(made, answers) ==
    IF \E i \in 1..Len(made) : answer_to(made, i, answers) # ""
    THEN CHOOSE i \in 1..Len(made) :
            /\ answer_to(made, i, answers) # ""
            /\ \A j \in 1..(i - 1) : answer_to(made, j, answers) = ""
    ELSE 0

\* densify_request_body: calls are the calls made, outcome what it returns or
\* raises; answers holds the error each call raises, "" for none
densify_request_body(geojson, s_crs, deviation, bbox_check, answers) ==
    IF bbox_check_deviation_set(geojson, s_crs, deviation, bbox_check) # ""
    THEN [calls |-> <<>>,
          outcome |-> DensifyRaised(bbox_check_deviation_set(geojson, s_crs, deviation, bbox_check))]
    ELSE IF first_raising(densify_calls_made(s_crs), answers) # 0
    THEN [calls |-> SubSeq(densify_calls_made(s_crs), 1,
                           first_raising(densify_calls_made(s_crs), answers)),
          outcome |-> DensifyRaised(answer_to(densify_calls_made(s_crs),
                                              first_raising(densify_calls_made(s_crs), answers),
                                              answers))]
    ELSE [calls |-> densify_calls_made(s_crs),
          outcome |-> DensifyReturned(IF densify_transforms(s_crs) THEN "body_d" ELSE "body_t_d")]

\* the errors the calls can be answered with: a crs_transform that is not
\* possible, a GeodenseError of the library (raised on as DensifyError)
DensifyAnswers ==
    [transform : {"", TransformationNotPossibleError},
     densify : {"", DensifyError},
     transform_back : {"", TransformationNotPossibleError}]

\* the values of max_segment_deviation: absent, or a deviation
Deviations == {None, 1000000}

-----------------------------------------------------------------------------
(* density_check_request_body, in the same terms as densify_request_body *)

GeodenseError == "GeodenseError"

\* a call of check_density_geojson_object(DenseConfig(DENSIFY_CRS_2D, ...), arg)
DensityCheckCall(arg) ==
    [op |-> "check_density_geojson_object", arg |-> arg,
     s_crs |-> DENSIFY_CRS_2D, t_crs |-> DENSIFY_CRS_2D]

\* the errors the calls of density_check_request_body can be answered with:
\* validate_geom_type and the library raise GeodenseError, a crs_transform
\* that is not possible raises TransformationNotPossibleError
DensityCheckAnswers ==
    [validate : {"", GeodenseError},
     transform : {"", TransformationNotPossibleError},
     check : {"", GeodenseError},
     transform_back : {"", TransformationNotPossibleError}]

\* density_check_request_body: calls are the calls of crs_transform and of
\* the library it makes, outcome what it returns or raises; body_t and
\* failed_line_segments_t are bound only when the source CRS is not a
\* densification CRS
density_check_request_body(geojson, s_crs, deviation, bbox_check, answers) ==
    IF answers.validate # ""
    THEN [calls |-> <<>>, outcome |-> DensifyRaised(answers.validate)]
    ELSE IF bbox_check_deviation_set(geojson, s_crs, deviation, bbox_check) # ""
    THEN [calls |-> <<>>,
          outcome |-> DensifyRaised(bbox_check_deviation_set(geojson, s_crs, deviation, bbox_check))]
    ELSE IF ~densify_transforms(s_crs)
    THEN [calls |-> <<>>, outcome |-> DensifyRaised(UnboundLocalError)]
    ELSE IF answers.transform # ""
    THEN [calls |-> <<CrsTransformCall("body", s_crs, densify_crs(s_crs))>>,
          outcome |-> DensifyRaised(answers.transform)]
    ELSE IF answers.check # ""
    THEN [calls |-> <<CrsTransformCall("body", s_crs, densify_crs(s_crs)),
                      DensityCheckCall("body_t")>>,
          outcome |-> DensifyRaised(answers.check)]
    ELSE IF answers.transform_back # ""
    THEN [calls |-> <<CrsTransformCall("body", s_crs, densify_crs(s_crs)),
                      DensityCheckCall("body_t"),
                      CrsTransformCall("failed_line_segments", densify_crs(s_crs), s_crs)>>,
          outcome |-> DensifyRaised(answers.transform_back)]
    ELSE [calls |-> <<CrsTransformCall("body", s_crs, densify_crs(s_crs)),
                      DensityCheckCall("body_t"),
                      CrsTransformCall("failed_line_segments", densify_crs(s_crs), s_crs)>>,
          outcome |-> DensifyReturned("failed_line_segments_t")]

DensifyIdle ==
    /\ max_segment_deviation = None
    /\ densify_calls = <<>>
    /\ densified = NoDensified

-----------------------------------------------------------------------------
(* get_transformer called repeatedly in one process *)

\* the pairs get_transformer is called with: two that reach the library and
\* one that the exclusion table refuses
CallPairs ==
    {<<"EPSG:28992", "EPSG:4258">>, <<"EPSG:4258", "EPSG:28992">>, <<"EPSG:7415", "EPSG:28992">>}

LibraryPairs == {pair \in CallPairs : reaches_library(pair[1], pair[2])}

\* what the library answers for a pair, <<>> for a pair that never reaches it
ranked_list(table, s_crs, t_crs) ==
    IF <<s_crs, t_crs>> \in DOMAIN table THEN table[<<s_crs, t_crs>>] ELSE <<>>

GetTransformerCall(s_crs, t_crs, ep, outcome) ==
    [source_crs |-> s_crs, target_crs |-> t_crs, epoch |-> ep, outcome |-> outcome]

\* a get_transformer that hands out what the call before it selected
get_transformer_reusing_last(calls, s_crs, t_crs, ep, transformers) ==
    IF Len(calls) > 0 /\ calls[Len(calls)].outcome.ok
    THEN calls[Len(calls)].outcome
    ELSE get_transformer(s_crs, t_crs, ep, transformers)

\* get_transformer called after the calls made so far: it has its arguments,
\* the exclusion table and the library's answer to go by, and keeps nothing
\* of an earlier call
get_transformer_after(calls, s_crs, t_crs, ep, transformers) ==
    get_transformer(s_crs, t_crs, ep, transformers)

CallIdle ==
    /\ ranked = <<>>
    /\ get_transformer_calls = <<>>

-----------------------------------------------------------------------------
(* The transform function applied to the positions of a geometry *)

\* the number of get_transformer calls get_transform_crs_fun makes while it
\* builds the transform function: none on the single candidate path; on the
\* split path one for the horizontal leg, one for the vertical leg and one
\* more for the fallback
get_transformer_calls_building(s_crs, t_crs, ep, transformers_h, transformers_v) ==
    IF ~is_split_path(s_crs, t_crs) \/ check_axis_fails(s_crs, t_crs) THEN 0
    ELSE IF ~horizontal_selected(s_crs, t_crs, ep, transformers_h) THEN 1
    ELSE IF vertical_leg_rejected(get_transformer(source_crs_vertical(s_crs),
                                                  target_crs_vertical(t_crs), ep, transformers_v))
    THEN 3
    ELSE 2

\* the number of get_transformer calls one application of the transform
\* function makes: transform_crs starts with one, transform_compound_crs
\* uses the transformers of its closure
get_transformer_calls_applying(transform_fun) ==
    IF transform_fun.path = "simple" THEN 1 ELSE 0

\* the pairs a transform function is built for: two of the single candidate
\* path, the second excluded, and two of the split path
ApplyPairs ==
    {<<"EPSG:28992", "EPSG:4258">>, <<"EPSG:7415", "EPSG:28992">>,
     <<"EPSG:7415", "EPSG:9286">>, <<"EPSG:7931", "EPSG:7415">>}

\* the raw outputs drawn for the positions of a geometry
ApplyOutputs ==
    {<<123456789, 234567891, 345678912>>, <<555555555, 444444444, 50000>>}

-----------------------------------------------------------------------------
(* POST /transform on a GeoJSON body. An object of the handler is told by    *)
(* the transformations applied to its coordinates so far, crs_transform      *)
(* changing the object it is given in place: body is the request body,       *)
(* d_body what the density check is given.                                   *)

DensityCheckFailedError == "DensityCheckFailedError"
DENSITY_CHECK_RESULT_HEADER == "density-check-result"
OnlyPointsMessage == "GeoJSON contains only (Multi)Point geometries"

\* str((a, b)) of two Python strings
str_of_pair(a, b) == "('" \o a \o "', '" \o b \o "')"

NoPostHeaders == [content_crs |-> "", epoch |-> None, density_check_result |-> ""]

NoPost == [called |-> FALSE, status |-> "pending", error |-> "", events |-> <<>>,
           body |-> <<>>, d_body |-> <<>>, headers |-> NoPostHeaders]

PostRaised(error, events, request_body, copy) ==
    [called |-> TRUE, status |-> "error", error |-> error, events |-> events,
     body |-> request_body, d_body |-> copy, headers |-> NoPostHeaders]

\* what the handler's calls besides density_check_request_body answer: the
\* report's features (none: check_result is true), the message of a
\* GeodenseError, crs_transform of the body, validate_crs_transformed_geojson
PostAnswers ==
    [report : {"no features", "features"},
     message : {OnlyPointsMessage, "other"},
     transform : {"", TransformationNotPossibleError},
     validate : {"", ResponseValidationError}]

\* the transformations density_check_request_body applies to the object it
\* is given
applied_by_density_check(calls) ==
    IF Len(calls) >= 1 /\ calls[1].op = "crs_transform"
    THEN <<<<calls[1].s_crs, calls[1].t_crs>>>> ELSE <<>>

\* the density-check branch of the handler: what it raises ("" when the
\* handler goes on to the transformation) and the density-check-result header
density_check_branch(checked, more) ==
    IF checked.ok
    THEN IF more.report = "no features"
         THEN [error |-> "", header |-> "success"]
         ELSE [error |-> DensityCheckFailedError, header |-> ""]
    ELSE IF checked.error = GeodenseError
    THEN IF more.message = OnlyPointsMessage
         THEN [error |-> "", header |-> "not-applicable-geom-type"]
         ELSE [error |-> RequestValidationError, header |-> ""]
    ELSE [error |-> checked.error, header |-> ""]

\* the handler from the point where post_transform_get_crss has returned
\* s_crs and t_crs; d_body_is_copy tells whether the density check is given
\* a deep copy of the body or the body itself
post_transform_geojson(d_body_is_copy, geojson, s_crs, t_crs, ep, check, deviation, bbox_check, answers, more) ==
    LET checked == density_check_request_body(geojson, s_crs, deviation, bbox_check, answers)
        d_body == IF check THEN applied_by_density_check(checked.calls) ELSE <<>>
        before == IF check /\ ~d_body_is_copy THEN d_body ELSE <<>>
        branch == IF check THEN density_check_branch(checked.outcome, more)
                  ELSE [error |-> "", header |-> "not-run"]
        checking == IF check THEN <<"deepcopy", "density_check_request_body">> ELSE <<>>
    IN  IF branch.error # ""
        THEN PostRaised(branch.error, checking, before, d_body)
        ELSE IF more.transform # ""
        THEN PostRaised(more.transform, checking \o <<"crs_transform">>, before, d_body)
        ELSE IF more.validate # ""
        THEN PostRaised(more.validate, checking \o <<"crs_transform">>,
                        before \o <<<<s_crs, t_crs>>>>, d_body)
        ELSE [called |-> TRUE, status |-> "ok", error |-> "",
              events |-> checking \o <<"crs_transform">>,
              body |-> before \o <<<<s_crs, t_crs>>>>,
              d_body |-> d_body,
              headers |-> [content_crs |-> str_of_pair("content-crs", to_authority(t_crs)),
                           epoch |-> ep,
                           density_check_result |-> branch.header]]

\* the handler giving the density check the request body itself
post_transform_without_copy(geojson, s_crs, t_crs, ep, check, deviation, bbox_check, answers, more) ==
    post_transform_geojson(FALSE, geojson, s_crs, t_crs, ep, check, deviation, bbox_check, answers, more)

\* post_transform: d_body = copy.deepcopy(body)
post_transform(geojson, s_crs, t_crs, ep, check, deviation, bbox_check, answers, more) ==
    post_transform_geojson(TRUE, geojson, s_crs, t_crs, ep, check, deviation, bbox_check, answers, more)

PostIdle ==
    /\ density_check = FALSE
    /\ post = NoPost

-----------------------------------------------------------------------------
(* ContentSizeLimitMiddleware. Each request is one call of __call__ with its *)
(* own scope and receive; the app calls the wrapped receive once per message.*)

\* the requests in flight at the same time
Requests == {"r1", "r2"}

\* the ASGI messages receive() delivers, by type and len(message["body"])
HttpMessages ==
    {[type |-> "http.request", body |-> n] : n \in 0..2}
    \cup {[type |-> "http.disconnect", body |-> 0]}
WebsocketMessages == {[type |-> "websocket.receive", body |-> 2]}

\* the messages a scope of a type can receive
MessagesOf(type) == IF type = "http" THEN HttpMessages ELSE WebsocketMessages

\* the limits the middleware is configured with
Limits == {None, 1, 3}

\* whether __call__ wraps receive for the scope
wraps(type) == type = "http"

\* whether inner() counts the message or returns it at once
counts(type, message, limit) ==
    wraps(type) /\ message.type = "http.request" /\ limit # None

\* a counter that all requests share
counter_shared(counter, r, body_len) == [q \in DOMAIN counter |-> counter[q] + body_len]

\* received += body_len, on the counter of the request's own wrapper
counter_added(counter, r, body_len) == [counter EXCEPT ![r] = @ + body_len]

LimitIdle ==
    /\ max_content_size = None
    /\ scope_type = [r \in Requests |-> "http"]
    /\ consumed = [r \in Requests |-> <<>>]
    /\ passed = [r \in Requests |-> <<>>]
    /\ received = [r \in Requests |-> 0]
    /\ rejected = [r \in Requests |-> FALSE]

-----------------------------------------------------------------------------
(* TimeoutMiddleware.dispatch. The event loop runs one task at a time: the   *)
(* timer of wait_for is served when the running task awaits. The handlers    *)
(* are coroutines without an await of their own (main.py:343-513), so a      *)
(* handler that has been called runs to its return in one step of the loop;  *)
(* before that, call_next awaits the request's body.                         *)

GATEWAY_TIMEOUT == 504

\* the status codes of the responses a handler returns
HandlerResponses == {200, 400, 404, 500}

TimeoutIdle ==
    /\ timeout_seconds = 1
    /\ clock = 0
    /\ handler = "awaiting"
    /\ computed_at = None
    /\ handler_response = None
    /\ dispatched = <<>>

\* needs_epoch before it is called, and what it returned
NoAnswer == [called |-> FALSE, value |-> FALSE]
Answer(b) == [called |-> TRUE, value |-> b]

\* the operation steps the library's candidates are made of: the methods of
\* the list are methods of Transformation steps
OperationSteps ==
    {[type_name |-> "Transformation", method_code |-> m] :
        m \in time_coordinate_operation_methodes \cup {"9615"}}
    \cup {[type_name |-> "Conversion", method_code |-> "9602"],
          [type_name |-> "Other Coordinate Operation", method_code |-> ""]}

\* the candidates needs_epoch is asked about: with a target CRS in a static
\* or a dynamic frame or without a target CRS, with up to n operation steps
\* (tf.operations None or empty is the empty sequence)
EpochCandidates(n) ==
    {[name |-> "candidate", has_target_crs |-> t[1], datum_type |-> t[2],
      operations |-> ops, source_crs |-> "coded"] :
        t \in {<<FALSE, "">>, <<TRUE, StaticFrame>>, <<TRUE, DynamicFrame>>},
        ops \in UNION {[1..k -> OperationSteps] : k \in 0..n}}

EpochIdle ==
    /\ candidate = TfGrid
    /\ has_epoch = NoAnswer

LaterIdle == EpochIdle /\ PostIdle /\ LimitIdle /\ TimeoutIdle

CountIdle ==
    /\ selections = 0
    /\ applications = 0
    /\ legs = NoLegs
    /\ LaterIdle

OtherIdle == CrssIdle /\ DensifyIdle /\ CallIdle /\ CountIdle

-----------------------------------------------------------------------------
(* Specification of the selector and the factory: per behaviour one call of  *)
(* get_transformer, or one call of get_transform_crs_fun and then an         *)
(* application of the function it built, on any pair of CRSs and any epoch;  *)
(* a ranked list is drawn when a call reaches TransformerGroup, and a raw    *)
(* output when a candidate's transform primitive is invoked.                 *)

Init ==
    /\ source_crs \in CRSs
    /\ target_crs \in CRSs
    /\ epoch \in Epochs
    /\ precision = None
    /\ tfg = NotCalled
    /\ selected = NoResult
    /\ tfg_h = NotCalled
    /\ tfg_v = NotCalled
    /\ fn = NoFunction
    /\ val = NoPosition
    /\ raw = NoRaw
    /\ raw_v = NoRaw
    /\ result = NoOutput
    /\ response = NoResponse
    /\ GeoIdle
    /\ OtherIdle

Untouched == selected = NoResult /\ fn = NoFunction /\ legs = NoLegs

\* get_transformer stopped by check_axis or by the exclusion table
GetTransformerRefused ==
    /\ Untouched
    /\ ~reaches_library(source_crs, target_crs)
    /\ selected' = get_transformer(source_crs, target_crs, epoch, <<>>)
    /\ UNCHANGED <<requestVars, tfg, factoryVars, applyVars, handlerVars, geoVars, otherVars>>

\* get_transformer asking the library and selecting from its ranked list
GetTransformerSelects ==
    /\ Untouched
    /\ reaches_library(source_crs, target_crs)
    /\ \E transformers \in RankedLists(MaxCandidates) :
          /\ tfg' = transformers
          /\ selected' = get_transformer(source_crs, target_crs, epoch, transformers)
    /\ UNCHANGED <<requestVars, factoryVars, applyVars, handlerVars, geoVars, otherVars>>

\* get_transform_crs_fun building the transform function
GetTransformCrsFun ==
    /\ Untouched
    /\ precision' \in Precisions
    /\ \E th \in IF asks_horizontal(source_crs, target_crs)
                 THEN RankedLists(MaxFactoryCandidates) ELSE {<<>>} :
       \E tv \in IF asks_vertical(source_crs, target_crs, epoch, th)
                 THEN RankedLists(MaxFactoryCandidates) ELSE {<<>>} :
       \E tc \in IF asks_whole_pair(source_crs, target_crs, epoch, th, tv)
                 THEN RankedLists(MaxFactoryCandidates) ELSE {<<>>} :
          /\ fn' = get_transform_crs_fun(source_crs, target_crs, epoch, th, tv, tc)
          /\ tfg_h' = IF asks_horizontal(source_crs, target_crs) THEN th ELSE NotCalled
          /\ tfg_v' = IF asks_vertical(source_crs, target_crs, epoch, th) THEN tv ELSE NotCalled
          /\ tfg' = IF asks_whole_pair(source_crs, target_crs, epoch, th, tv) THEN tc ELSE NotCalled
    /\ UNCHANGED <<source_crs, target_crs, epoch, selected, applyVars, handlerVars, geoVars, otherVars>>

\* transform_crs applied to a position its get_transformer call refuses
TransformCrsRefused ==
    /\ fn.ok /\ fn.path = "simple" /\ result = NoOutput
    /\ ~reaches_library(source_crs, target_crs)
    /\ \E v \in Positions :
          /\ val' = v
          /\ result' = transform_crs(v, source_crs, target_crs, epoch, precision, <<>>, NoRaw)
    /\ UNCHANGED <<requestVars, tfg, selected, factoryVars, raw, raw_v, handlerVars, geoVars, otherVars>>

\* transform_crs applied to a position: it selects a candidate, and invokes
\* the candidate's primitive when one was selected
TransformCrs ==
    /\ fn.ok /\ fn.path = "simple" /\ result = NoOutput
    /\ reaches_library(source_crs, target_crs)
    /\ \E v \in Positions :
       \E transformers \in IF tfg = NotCalled
                           THEN RankedLists(MaxFactoryCandidates) ELSE {tfg} :
       \E out \in IF get_transformer(source_crs, target_crs, epoch, transformers).ok
                  THEN RawOutputs ELSE {NoRaw} :
          /\ val' = v
          /\ tfg' = transformers
          /\ raw' = out
          /\ result' = transform_crs(v, source_crs, target_crs, epoch, precision,
                                     transformers, out)
    /\ UNCHANGED <<requestVars, selected, factoryVars, raw_v, handlerVars, geoVars, otherVars>>

\* get_transform_crs_fun has returned the closure transform_compound_crs: it
\* holds the two selected transformers, the TransformerGroups are released
ReleaseTransformerGroups ==
    /\ fn.ok /\ fn.path = "compound" /\ tfg_h # NotCalled
    /\ tfg' = NotCalled /\ tfg_h' = NotCalled /\ tfg_v' = NotCalled
    /\ UNCHANGED <<requestVars, selected, fn, applyVars, handlerVars, geoVars, otherVars>>

\* transform_compound_crs applied to a position
TransformCompoundCrs ==
    /\ fn.ok /\ fn.path = "compound" /\ tfg_h = NotCalled /\ result = NoOutput
    /\ \E v \in Positions :
       \E out_h \in RawOutputs :
       \E out_v \in RawOutputs :
          /\ val' = v
          /\ raw' = out_h
          /\ raw_v' = out_v
          /\ result' = transform_compound_crs(v, epoch, precision, out_h, out_v)
    /\ UNCHANGED <<requestVars, tfg, selected, factoryVars, handlerVars, geoVars, otherVars>>

\* get_individual_crs_from_compound called on a CRS, compound or not
GetIndividualCrsFromCompound ==
    /\ Untouched
    /\ legs' = [called |-> TRUE,
                horizontal |-> get_individual_crs_from_compound(source_crs).horizontal,
                vertical |-> get_individual_crs_from_compound(source_crs).vertical]
    /\ UNCHANGED <<requestVars, tfg, selected, factoryVars, applyVars, handlerVars, geoVars,
                   crssVars, densifyVars, callVars, countVars, laterVars>>

Next ==
    \/ GetIndividualCrsFromCompound
    \/ GetTransformerRefused
    \/ GetTransformerSelects
    \/ GetTransformCrsFun
    \/ TransformCrsRefused
    \/ TransformCrs
    \/ ReleaseTransformerGroups
    \/ TransformCompoundCrs

Spec == Init /\ [][Next]_vars

-----------------------------------------------------------------------------
(* Specification of the GET /transform handler: one request per behaviour,   *)
(* for any pair of CRSs of the API, any epoch and any position; the library  *)
(* answers each TransformerGroup and each transform primitive the handler    *)
(* reaches.                                                                  *)

InitGet ==
    /\ source_crs \in CrsEnum
    /\ target_crs \in CrsEnum
    /\ epoch \in Epochs
    /\ precision = None
    /\ tfg = NotCalled
    /\ selected = NoResult
    /\ tfg_h = NotCalled
    /\ tfg_v = NotCalled
    /\ fn = NoFunction
    /\ val = NoPosition
    /\ raw = NoRaw
    /\ raw_v = NoRaw
    /\ result = NoOutput
    /\ response = NoResponse
    /\ GeoIdle
    /\ OtherIdle

\* a request whose position does not have the source CRS's dimensions
TransformGetInvalid ==
    /\ response = NoResponse
    /\ \E coordinates \in Positions :
          /\ validate_coords_source_crs_fails(coordinates, source_crs)
          /\ val' = coordinates
          /\ response' = ErrorResponse(RequestValidationError, DimensionsMessage)
    /\ UNCHANGED <<requestVars, tfg, selected, factoryVars, raw, raw_v, result, geoVars, otherVars>>

\* a request that passes validation: the transform function is built and
\* applied, and the response is made of what it returned
TransformGet ==
    /\ response = NoResponse
    /\ \E coordinates \in Positions :
       \E th \in IF asks_horizontal(source_crs, target_crs)
                 THEN RankedLists(MaxFactoryCandidates) ELSE {<<>>} :
       \E tv \in IF asks_vertical(source_crs, target_crs, epoch, th)
                 THEN RankedLists(MaxFactoryCandidates) ELSE {<<>>} :
       \E tc \in IF \/ asks_whole_pair(source_crs, target_crs, epoch, th, tv)
                    \/ /\ ~is_split_path(source_crs, target_crs)
                       /\ reaches_library(source_crs, target_crs)
                 THEN RankedLists(MaxFactoryCandidates) ELSE {<<>>} :
          /\ ~validate_coords_source_crs_fails(coordinates, source_crs)
          /\ val' = coordinates
          /\ precision' = get_precision(target_crs)
          /\ fn' = get_transform_crs_fun(source_crs, target_crs, epoch, th, tv, tc)
          /\ raw' \in IF invokes_primitive(fn', source_crs, target_crs, epoch, tc)
                      THEN RawOutputs ELSE {NoRaw}
          /\ raw_v' \in IF fn'.ok /\ fn'.path = "compound" THEN RawOutputs ELSE {NoRaw}
          /\ result' = transform_coordinates(coordinates, source_crs, target_crs, epoch,
                                             fn', tc, raw', raw_v')
          /\ response' = transform(result', target_crs, epoch)
    /\ UNCHANGED <<source_crs, target_crs, epoch, tfg, selected, tfg_h, tfg_v, geoVars, otherVars>>

NextGet ==
    \/ TransformGetInvalid
    \/ TransformGet

SpecGet == InitGet /\ [][NextGet]_vars

-----------------------------------------------------------------------------
(* Specification of the walker and the bbox update: per behaviour one        *)
(* coordinates array walked by traverse_geojson_coordinates, or one payload  *)
(* taken through crs_transform or through a bbox update, with any of the     *)
(* transform functions.                                                      *)

InitGeo ==
    /\ source_crs = "EPSG:28992"
    /\ target_crs = "EPSG:4258"
    /\ epoch = None
    /\ precision = None
    /\ tfg = NotCalled
    /\ selected = NoResult
    /\ tfg_h = NotCalled
    /\ tfg_v = NotCalled
    /\ fn = NoFunction
    /\ val = NoPosition
    /\ raw = NoRaw
    /\ raw_v = NoRaw
    /\ result = NoOutput
    /\ response = NoResponse
    /\ callback \in Callbacks
    /\ traversed = NoTraversal
    /\ body_t = NoBody
    /\ coordinate_bbox = NoEnvelope
    /\ OtherIdle
    /\ \/ geojson_coordinates \in CoordinateTrees /\ body = NoBody
       \/ geojson_coordinates = NoCoordinates /\ body \in Payloads

selectorVars == <<requestVars, tfg, selected, factoryVars, applyVars, handlerVars>>

TraverseGeojsonCoordinates ==
    /\ geojson_coordinates # NoCoordinates
    /\ traversed = NoTraversal
    /\ traversed' = traverse_geojson_coordinates(geojson_coordinates, callback)
    /\ UNCHANGED <<selectorVars, otherVars, callback, geojson_coordinates, body, body_t, coordinate_bbox>>

\* crs_transform of a request body
CrsTransform ==
    /\ body # NoBody
    /\ body_t = NoBody
    /\ body_t' = crs_transform(body, callback, target_crs)
    /\ UNCHANGED <<selectorVars, otherVars, callback, geojson_coordinates, traversed, body, coordinate_bbox>>

\* traverse_geojson_geometries(body, None, update_bbox): the bbox update alone
UpdateBbox ==
    /\ body # NoBody
    /\ body_t = NoBody
    /\ body_t' = traverse_geojson_geometries(body, "none")
    /\ UNCHANGED <<selectorVars, otherVars, callback, geojson_coordinates, traversed, body, coordinate_bbox>>

UpdateBboxGeojsonObject ==
    /\ body # NoBody
    /\ body_t = NoBody
    /\ body_t' = update_bbox_geojson_object(body)
    /\ UNCHANGED <<selectorVars, otherVars, callback, geojson_coordinates, traversed, body, coordinate_bbox>>

\* get_bbox_from_coordinates of a coordinates object
GetBboxFromCoordinates ==
    /\ geojson_coordinates # NoCoordinates
    /\ coordinate_bbox = NoEnvelope
    /\ coordinate_bbox' = [called |-> TRUE,
                           ok |-> get_bbox_from_coordinates(geojson_coordinates).ok,
                           bbox |-> get_bbox_from_coordinates(geojson_coordinates).bbox]
    /\ UNCHANGED <<selectorVars, otherVars, callback, geojson_coordinates, traversed, body, body_t>>

NextGeo ==
    \/ TraverseGeojsonCoordinates
    \/ GetBboxFromCoordinates
    \/ CrsTransform
    \/ UpdateBbox
    \/ UpdateBboxGeojsonObject

SpecGeo == InitGeo /\ [][NextGeo]_vars

-----------------------------------------------------------------------------
(* Specification of the CRSs of a request: a GET /transform with its query   *)
(* parameters and headers, or a POST /transform with a body as well; the     *)
(* handler resolves the source and the target CRS first and transforms the   *)
(* body afterwards.                                                          *)

InitCrss ==
    /\ source_crs = "EPSG:28992"
    /\ target_crs = "EPSG:4258"
    /\ epoch = None
    /\ precision = None
    /\ tfg = NotCalled
    /\ selected = NoResult
    /\ tfg_h = NotCalled
    /\ tfg_v = NotCalled
    /\ fn = NoFunction
    /\ val = NoPosition
    /\ raw = NoRaw
    /\ raw_v = NoRaw
    /\ result = NoOutput
    /\ response = NoResponse
    /\ callback = "rotate"
    /\ geojson_coordinates = NoCoordinates
    /\ traversed = NoTraversal
    /\ body \in {NoBody} \cup PostBodies
    /\ body_t = NoBody
    /\ coordinate_bbox = NoEnvelope
    /\ query_source_crs \in QueryCrss
    /\ query_target_crs \in QueryCrss
    /\ content_crs \in HeaderCrss
    /\ accept_crs \in HeaderCrss
    /\ crss = NoCrss
    /\ DensifyIdle
    /\ CallIdle
    /\ CountIdle

\* GET /transform, up to the CRSs it transforms between
TransformGetCrss ==
    /\ body = NoBody
    /\ crss = NoCrss
    /\ crss' = get_transform_get_crss(query_source_crs, query_target_crs, content_crs, accept_crs)
    /\ UNCHANGED <<selectorVars, geoVars, query_source_crs, query_target_crs,
                   content_crs, accept_crs, densifyVars, callVars, countVars, splitVars, laterVars>>

\* POST /transform without the density check: the CRSs are resolved, and the
\* body is transformed when that did not raise
PostTransform ==
    /\ body # NoBody
    /\ crss = NoCrss
    /\ crss' = post_transform_get_crss(body, query_source_crs, query_target_crs,
                                       content_crs, accept_crs)
    /\ body_t' = IF crss'.ok THEN crs_transform(body, callback, crss'.t_crs) ELSE NoBody
    /\ UNCHANGED <<selectorVars, callback, geojson_coordinates, traversed, body,
                   coordinate_bbox, query_source_crs, query_target_crs, content_crs, accept_crs,
                   densifyVars, callVars, countVars, splitVars, laterVars>>

NextCrss ==
    \/ TransformGetCrss
    \/ PostTransform

SpecCrss == InitCrss /\ [][NextCrss]_vars

-----------------------------------------------------------------------------
(* Specification of densify_request_body: one call per behaviour, on a body  *)
(* with or without a bbox, from a source CRS that is or is not one of the    *)
(* densification CRSs, with or without max_segment_deviation.                *)

InitDensify ==
    /\ source_crs \in {"EPSG:28992", "EPSG:7415", DENSIFY_CRS_2D, DENSIFY_CRS_3D}
    /\ target_crs = source_crs
    /\ epoch = None
    /\ precision = None
    /\ tfg = NotCalled
    /\ selected = NoResult
    /\ tfg_h = NotCalled
    /\ tfg_v = NotCalled
    /\ fn = NoFunction
    /\ val = NoPosition
    /\ raw = NoRaw
    /\ raw_v = NoRaw
    /\ result = NoOutput
    /\ response = NoResponse
    /\ callback = "none"
    /\ geojson_coordinates = NoCoordinates
    /\ traversed = NoTraversal
    /\ body \in {LineString2D(b) : b \in Bboxes} \cup {Polygon3D(b) : b \in Bboxes}
                \cup {Feature(LineString2D(NoBbox), b) : b \in Bboxes}
    /\ body_t = NoBody
    /\ coordinate_bbox = NoEnvelope
    /\ CrssIdle
    /\ max_segment_deviation \in Deviations
    /\ densify_calls = <<>>
    /\ densified = NoDensified
    /\ CallIdle
    /\ CountIdle

DensifyRequestBody ==
    /\ ~densified.called
    /\ \E bbox_check \in BboxChecks, answers \in DensifyAnswers :
          /\ densify_calls' = densify_request_body(body, source_crs, max_segment_deviation,
                                                   bbox_check, answers).calls
          /\ densified' = densify_request_body(body, source_crs, max_segment_deviation,
                                               bbox_check, answers).outcome
    /\ UNCHANGED <<selectorVars, geoVars, crssVars, max_segment_deviation, callVars, countVars, splitVars, laterVars>>

NextDensify == DensifyRequestBody

SpecDensify == InitDensify /\ [][NextDensify]_vars

-----------------------------------------------------------------------------
(* Specification of repeated selection: get_transformer is called up to      *)
(* MaxCalls times with any of the pairs and epochs, the library answering    *)
(* each pair with the same ranked list throughout.                           *)

InitCalls ==
    /\ source_crs = "EPSG:28992"
    /\ target_crs = "EPSG:4258"
    /\ epoch = None
    /\ precision = None
    /\ tfg = NotCalled
    /\ selected = NoResult
    /\ tfg_h = NotCalled
    /\ tfg_v = NotCalled
    /\ fn = NoFunction
    /\ val = NoPosition
    /\ raw = NoRaw
    /\ raw_v = NoRaw
    /\ result = NoOutput
    /\ response = NoResponse
    /\ GeoIdle
    /\ CrssIdle
    /\ DensifyIdle
    /\ ranked \in [LibraryPairs -> RankedLists(MaxFactoryCandidates)]
    /\ get_transformer_calls = <<>>
    /\ CountIdle

\* one call of get_transformer
GetTransformer ==
    /\ Len(get_transformer_calls) < MaxCalls
    /\ \E pair \in CallPairs, ep \in Epochs :
          get_transformer_calls' =
              Append(get_transformer_calls,
                     GetTransformerCall(pair[1], pair[2], ep,
                         get_transformer_after(get_transformer_calls, pair[1], pair[2], ep,
                                               ranked_list(ranked, pair[1], pair[2]))))
    /\ UNCHANGED <<selectorVars, geoVars, crssVars, densifyVars, ranked, countVars, splitVars, laterVars>>

NextCalls == GetTransformer

SpecCalls == InitCalls /\ [][NextCalls]_vars

-----------------------------------------------------------------------------
(* Specification of a transform function on a geometry: get_transform_crs_fun *)
(* builds the function once, and traverse_geojson_coordinates applies it to  *)
(* up to MaxPositions positions; the library answers the same pair with the  *)
(* same ranked list each time it is asked.                                   *)

InitApply ==
    /\ \E pair \in ApplyPairs : source_crs = pair[1] /\ target_crs = pair[2]
    /\ epoch \in Epochs
    /\ precision = None
    /\ tfg = NotCalled
    /\ selected = NoResult
    /\ tfg_h = NotCalled
    /\ tfg_v = NotCalled
    /\ fn = NoFunction
    /\ val = NoPosition
    /\ raw = NoRaw
    /\ raw_v = NoRaw
    /\ result = NoOutput
    /\ response = NoResponse
    /\ GeoIdle
    /\ CrssIdle
    /\ DensifyIdle
    /\ CallIdle
    /\ selections = 0
    /\ applications = 0
    /\ legs = NoLegs
    /\ LaterIdle

\* get_transform_crs_fun: the function is built, its get_transformer calls
\* are counted
BuildTransformCrsFun ==
    /\ fn = NoFunction
    /\ \E th \in IF asks_horizontal(source_crs, target_crs)
                 THEN RankedLists(MaxFactoryCandidates) ELSE {<<>>} :
       \E tv \in IF asks_vertical(source_crs, target_crs, epoch, th)
                 THEN RankedLists(MaxFactoryCandidates) ELSE {<<>>} :
       \E tc \in IF asks_whole_pair(source_crs, target_crs, epoch, th, tv)
                 THEN RankedLists(MaxFactoryCandidates) ELSE {<<>>} :
          /\ fn' = get_transform_crs_fun(source_crs, target_crs, epoch, th, tv, tc)
          /\ selections' = selections
                            + get_transformer_calls_building(source_crs, target_crs, epoch, th, tv)
    /\ UNCHANGED <<requestVars, tfg, selected, tfg_h, tfg_v, applyVars, handlerVars, geoVars,
                   crssVars, densifyVars, callVars, applications, splitVars, laterVars>>

\* transform_crs applied to the next position
ApplyTransformCrs ==
    /\ fn.ok /\ fn.path = "simple"
    /\ applications < MaxPositions
    /\ result.ok \/ result = NoOutput
    /\ \E v \in Positions :
       \E transformers \in IF ~reaches_library(source_crs, target_crs) THEN {<<>>}
                           ELSE IF tfg = NotCalled
                           THEN RankedLists(MaxFactoryCandidates) ELSE {tfg} :
       \E out \in IF get_transformer(source_crs, target_crs, epoch, transformers).ok
                  THEN ApplyOutputs ELSE {NoRaw} :
          /\ val' = v
          /\ tfg' = IF reaches_library(source_crs, target_crs) THEN transformers ELSE tfg
          /\ raw' = out
          /\ result' = transform_crs(v, source_crs, target_crs, epoch, precision,
                                     transformers, out)
    /\ selections' = selections + get_transformer_calls_applying(fn)
    /\ applications' = applications + 1
    /\ UNCHANGED <<requestVars, selected, factoryVars, raw_v, handlerVars, geoVars,
                   crssVars, densifyVars, callVars, splitVars, laterVars>>

\* transform_compound_crs applied to the next position
ApplyTransformCompoundCrs ==
    /\ fn.ok /\ fn.path = "compound"
    /\ applications < MaxPositions
    /\ \E v \in Positions :
       \E out_h \in ApplyOutputs :
       \E out_v \in ApplyOutputs :
          /\ val' = v
          /\ raw' = out_h
          /\ raw_v' = out_v
          /\ result' = transform_compound_crs(v, epoch, precision, out_h, out_v)
    /\ selections' = selections + get_transformer_calls_applying(fn)
    /\ applications' = applications + 1
    /\ UNCHANGED <<requestVars, tfg, selected, factoryVars, handlerVars, geoVars,
                   crssVars, densifyVars, callVars, splitVars, laterVars>>

NextApply ==
    \/ BuildTransformCrsFun
    \/ ApplyTransformCrs
    \/ ApplyTransformCompoundCrs

SpecApply == InitApply /\ [][NextApply]_vars

-----------------------------------------------------------------------------
(* Properties of the selector and the factory, checked under Spec *)

\* get_transformer was called and has asked the library for its ranked list
SelectorAsked == selected # NoResult /\ tfg # NotCalled

\* C1: with the epoch absent get_transformer never returns a candidate that
\* needs an epoch, and when every candidate of the ranked list needs one it
\* fails with TransformationNotPossibleError, the reason being that an input
\* epoch is required.
C1_NoEpochNeverTimeDependent ==
    /\ (selected.ok /\ epoch = None) => ~needs_epoch(selected.tf)
    /\ (/\ SelectorAsked
        /\ epoch = None
        /\ Len(tfg) > 0
        /\ \A i \in 1..Len(tfg) : needs_epoch(tfg[i]))
       => /\ ~selected.ok
          /\ selected.error = TransformationNotPossibleError
          /\ selected.reason = EpochReason

\* a list of two candidates that both need an epoch was refused for that reason
C1_Witness ==
    /\ SelectorAsked
    /\ epoch = None
    /\ Len(tfg) = 2
    /\ \A i \in 1..Len(tfg) : needs_epoch(tfg[i])
    /\ selected.reason = EpochReason

\* C2: with the epoch absent and a candidate that needs no epoch in the ranked
\* list, get_transformer returns the lowest-ranked-index such candidate, also
\* when candidates that need an epoch precede it, and does not raise.
C2_FirstWithoutEpoch ==
    (/\ SelectorAsked
     /\ epoch = None
     /\ \E i \in 1..Len(tfg) : ~needs_epoch(tfg[i]))
    => /\ selected.ok
       /\ selected.rank \in 1..Len(tfg)
       /\ ~needs_epoch(tfg[selected.rank])
       /\ \A j \in 1..(selected.rank - 1) : needs_epoch(tfg[j])
       /\ selected.tf = tfg[selected.rank]

\* the second candidate was returned because the first needs an epoch
C2_Witness ==
    /\ SelectorAsked
    /\ epoch = None
    /\ Len(tfg) = 2
    /\ needs_epoch(tfg[1])
    /\ selected.ok
    /\ selected.rank = 2

\* C3: with an epoch supplied, past the dimension and exclusion checks and
\* with a non-empty ranked list, get_transformer returns the top-ranked
\* candidate whether or not it needs an epoch.
C3_EpochTakesTopRanked ==
    (/\ SelectorAsked
     /\ epoch # None
     /\ Len(tfg) > 0)
    => /\ selected.ok
       /\ selected.rank = 1
       /\ selected.tf = tfg[1]

\* a top-ranked candidate that needs an epoch was returned although a
\* candidate that needs none follows it
C3_Witness ==
    /\ SelectorAsked
    /\ epoch # None
    /\ Len(tfg) = 2
    /\ needs_epoch(tfg[1])
    /\ ~needs_epoch(tfg[2])
    /\ selected.ok
    /\ selected.tf = tfg[1]

\* C4: when the source CRS has fewer axes than the target CRS, get_transformer
\* fails with TransformationNotPossibleError, and so does the transform
\* function of get_transform_crs_fun, when it is built or when it is applied:
\* no position is ever returned.
C4_FewerSourceAxesAlwaysFails ==
    axis_count(source_crs) < axis_count(target_crs)
    => /\ selected # NoResult
          => ~selected.ok /\ selected.error = TransformationNotPossibleError
       /\ (fn # NoFunction /\ ~fn.ok) => fn.error = TransformationNotPossibleError
       /\ result # NoOutput
          => ~result.ok /\ result.error = TransformationNotPossibleError
       /\ result.position = <<>>

\* a transform function from a 2D source to a 3D target was applied to a
\* position and raised
C4_Witness ==
    /\ axis_count(source_crs) < axis_count(target_crs)
    /\ val \in Positions
    /\ result # NoOutput
    /\ ~result.ok

ExcludedReason == "Transformation Excluded"

\* C5: when the exclusion table lists the target under the source,
\* get_transformer fails with TransformationNotPossibleError and a reason
\* saying that the transformation is excluded.
C5_ExcludedReasonStated ==
    (/\ selected # NoResult
     /\ source_crs \in DOMAIN CRS_CONFIG
     /\ target_crs \in CRS_CONFIG[source_crs].exclude_transformations)
    => /\ ~selected.ok
       /\ selected.error = TransformationNotPossibleError
       /\ selected.reason = ExcludedReason

\* the vertical leg of a compound build was tried, and was rejected: its
\* selection raised, or its candidate's source CRS has no authority code
VerticalLegRejected ==
    /\ fn.path = "compound"
    /\ tfg_h # NotCalled
    /\ fn.h_transformer.ok
    /\ \/ ~fn.v_first.ok
       \/ fn.v_first.tf.source_crs = "uncoded"

\* C10 as stated: when the vertical leg is rejected the vertical candidate is
\* get_transformer(source, target, epoch) and building does not raise.
C10_FallbackNeverRaises ==
    VerticalLegRejected
    => /\ fn.ok
       /\ fn.fallback
       /\ fn.v_transformer = get_transformer(source_crs, target_crs, epoch, tfg)

\* C10 amended: when the vertical leg is rejected, the outcome of building is
\* the outcome of get_transformer(source, target, epoch) for the whole pair:
\* its candidate becomes the vertical candidate when it returns one, and its
\* TransformationNotPossibleError is raised by the build when it fails.
C10_FallbackToWholePair ==
    VerticalLegRejected
    => /\ fn.fallback
       /\ reaches_library(source_crs, target_crs) => tfg # NotCalled
       /\ LET whole == get_transformer(source_crs, target_crs, epoch, tfg)
          IN  IF whole.ok
              THEN fn.ok /\ fn.v_transformer = whole
              ELSE /\ ~fn.ok
                   /\ fn.error = TransformationNotPossibleError
                   /\ fn.reason = whole.reason

\* a vertical candidate without an authority code was replaced by the
\* candidate of the whole pair
C10_Witness ==
    /\ VerticalLegRejected
    /\ fn.v_first.ok
    /\ fn.ok
    /\ fn.v_transformer # fn.v_first
    /\ fn.v_transformer.tf = tfg[1]

-----------------------------------------------------------------------------
(* Properties of the GET /transform handler, checked under SpecGet *)

\* transform_coordinates returned a position of three ordinates whose height
\* is infinite while x and y are finite
InfiniteHeightOnly ==
    /\ response # NoResponse
    /\ result.ok
    /\ Len(result.position) = 3
    /\ abs(result.position[3]) = Inf
    /\ abs(result.position[1]) # Inf
    /\ abs(result.position[2]) # Inf

\* C8: whenever the transformed position has three ordinates and its height is
\* positive or negative infinity while x and y are finite, the request
\* succeeds and the position returned has exactly the two ordinates x and y.
C8_InfiniteHeightDropped ==
    InfiniteHeightOnly
    => /\ response.status = "ok"
       /\ response.coordinates = SubSeq(result.position, 1, 2)

\* C9: no successful response contains an infinite ordinate, and when x or y
\* of the transformed position is +inf or -inf the request fails with an
\* error instead of returning the position.
C9_NoInfiniteOrdinateReturned ==
    /\ response.status = "ok"
       => \A i \in 1..Len(response.coordinates) : abs(response.coordinates[i]) # Inf
    /\ (/\ response # NoResponse
        /\ result.ok
        /\ \/ abs(result.position[1]) = Inf
           \/ abs(result.position[2]) = Inf)
       => /\ response.status = "error"
          /\ response.error = ResponseValidationError
          /\ response.coordinates = <<>>

\* a transformed position whose x is -inf was answered with an error
C9_Witness ==
    /\ result.ok
    /\ result.position[1] = -Inf
    /\ response.status = "error"
    /\ response.error = ResponseValidationError

-----------------------------------------------------------------------------
(* Properties of the walker and the bbox update, checked under SpecGeo *)

\* the places inside a coordinates array: the indices that lead from the
\* array to each of its values
RECURSIVE Places(_)
Places(coords) ==
    {<<>>} \cup UNION {{<<i>> \o p : p \in Places(coords.items[i])} :
                         i \in 1..Len(coords.items)}

RECURSIVE HasPlace(_, _)
HasPlace(coords, path) ==
    \/ Len(path) = 0
    \/ /\ coords.kind = "list"
       /\ Head(path) <= Len(coords.items)
       /\ HasPlace(coords.items[Head(path)], Tail(path))

RECURSIVE At(_, _)
At(coords, path) ==
    IF Len(path) = 0 THEN coords ELSE At(coords.items[Head(path)], Tail(path))

\* a list every element of which is a plain number
IsLeaf(x) ==
    /\ x.kind = "list"
    /\ \A i \in 1..Len(x.items) : x.items[i].kind = "number"

LeafPlaces(coords) ==
    {p \in Places(coords) : IsLeaf(At(coords, p))}

InnerPlaces(coords) ==
    {p \in Places(coords) : At(coords, p).kind = "list" /\ ~IsLeaf(At(coords, p))}

\* p comes before q in the input
Before(p, q) ==
    \E k \in 1..Len(p) :
       /\ k <= Len(q)
       /\ p[k] < q[k]
       /\ \A j \in 1..(k - 1) : p[j] = q[j]

\* the position of the leaf at p among the leaves, in input order
Rank(coords, p) == Cardinality({q \in LeafPlaces(coords) : Before(q, p)}) + 1

\* C7: traverse_geojson_coordinates returns a structure with the nesting and
\* the list lengths of its input in which every leaf p is replaced by
\* callback(p); the callback is invoked exactly once per leaf, in input order;
\* a list is a leaf if and only if every one of its elements is a plain number.
C7_WalkerPreservesStructure ==
    traversed # NoTraversal
    => /\ \A p \in InnerPlaces(geojson_coordinates) :
             /\ HasPlace(traversed.value, p)
             /\ At(traversed.value, p).kind = "list"
             /\ Len(At(traversed.value, p).items) = Len(At(geojson_coordinates, p).items)
       /\ \A p \in LeafPlaces(geojson_coordinates) :
             /\ HasPlace(traversed.value, p)
             /\ At(traversed.value, p) = call(callback, At(geojson_coordinates, p))
             /\ Rank(geojson_coordinates, p) <= Len(traversed.calls)
             /\ traversed.calls[Rank(geojson_coordinates, p)] = At(geojson_coordinates, p)
       /\ Len(traversed.calls) = Cardinality(LeafPlaces(geojson_coordinates))

\* the coordinates of two polygons were walked: two different positions three
\* lists deep, each replaced by another position
C7_Witness ==
    /\ traversed # NoTraversal
    /\ Cardinality(LeafPlaces(geojson_coordinates)) = 2
    /\ \A p \in LeafPlaces(geojson_coordinates) : Len(p) = 3
    /\ Len(traversed.calls) = 2
    /\ traversed.calls[1] # traversed.calls[2]
    /\ \A p \in LeafPlaces(geojson_coordinates) :
          At(traversed.value, p) # At(geojson_coordinates, p)

\* the objects of a payload: the indices that lead from the payload to each
\* of its members, and to itself
RECURSIVE Members(_)
Members(item) ==
    {<<>>} \cup UNION {{<<i>> \o p : p \in Members(item.children[i])} :
                         i \in 1..Len(item.children)}

RECURSIVE HasMember(_, _)
HasMember(item, path) ==
    \/ Len(path) = 0
    \/ /\ Head(path) <= Len(item.children)
       /\ HasMember(item.children[Head(path)], Tail(path))

RECURSIVE Member(_, _)
Member(item, path) ==
    IF Len(path) = 0 THEN item ELSE Member(item.children[Head(path)], Tail(path))

\* the positions of an object: those of its coordinates, or of its members
RECURSIVE PositionsOf(_)
PositionsOf(item) ==
    IF Len(item.children) = 0
    THEN {Ordinates(At(item.coordinates, p)) : p \in LeafPlaces(item.coordinates)}
    ELSE UNION {PositionsOf(item.children[i]) : i \in 1..Len(item.children)}

\* the envelope of a set of positions: the least and the greatest value per
\* axis, with a height axis when every position has a height
Envelope(S) ==
    LET d == IF \A p \in S : Len(p) >= 3 THEN 3 ELSE 2
    IN  [i \in 1..(2 * d) |->
            IF i <= d
            THEN CHOOSE m \in {p[i] : p \in S} : \A q \in S : m <= q[i]
            ELSE CHOOSE m \in {p[i - d] : p \in S} : \A q \in S : m >= q[i - d]]

-----------------------------------------------------------------------------
(* C11: the CRS tag after crs_transform *)

\* C11: when crs_transform of a FeatureCollection returns, the crs member of
\* what it returns names the target CRS as AUTH:CODE, and differs from the crs
\* member sent unless that named the target already; crs_transform of any
\* other kind of object returns an object without a crs member.
C11_TargetCrsTag ==
    [][(CrsTransform /\ ~body_t'.raised)
       => IF body.type = "FeatureCollection"
          THEN /\ body_t'.type = "FeatureCollection"
               /\ body_t'.crs # NoCrs
               /\ get_crs_auth_code(body_t') = to_authority(target_crs)
               /\ get_crs_auth_code(body) # to_authority(target_crs) => body_t'.crs # body.crs
          ELSE body_t'.crs = NoCrs]_vars

\* a FeatureCollection tagged EPSG:28992 came back from crs_transform to
\* EPSG:4258 tagged EPSG:4258
C11_Witness ==
    /\ body.type = "FeatureCollection"
    /\ get_crs_auth_code(body) = "EPSG:28992"
    /\ target_crs = "EPSG:4258"
    /\ body_t.type = "FeatureCollection"
    /\ ~body_t.raised
    /\ body_t.crs = crs_urn("EPSG", "4258")

-----------------------------------------------------------------------------
(* C12, C13: get_bbox_from_coordinates *)

\* the positions of a coordinates object: its non-empty lists of numbers
PositionsIn(coords) ==
    {Ordinates(At(coords, p)) :
        p \in {q \in LeafPlaces(coords) : Len(At(coords, q).items) > 0}}

AllWide(coords, d) ==
    /\ PositionsIn(coords) # {}
    /\ \A p \in PositionsIn(coords) : Len(p) = d

\* bbox holds, per axis, a lower bound at i and an upper bound at d + i that
\* contain every position and are each attained by some position
IsEnvelopeOf(bbox, S, d) ==
    /\ Len(bbox) = 2 * d
    /\ \A i \in 1..d :
          /\ \A p \in S : bbox[i] <= p[i] /\ p[i] <= bbox[d + i]
          /\ \E p \in S : p[i] = bbox[i]
          /\ \E p \in S : p[i] = bbox[d + i]

\* C12: for a nested coordinates object all of whose positions are 2 wide
\* (3 wide) get_bbox_from_coordinates returns a 4-tuple (6-tuple) of the
\* minima followed by the maxima per ordinate: every position lies inside it
\* and every bound is attained by some position.
C12_BboxFromCoordinates ==
    coordinate_bbox.called
    => \A d \in {TWO_DIMENSIONAL, THREE_DIMENSIONAL} :
          AllWide(geojson_coordinates, d)
          => /\ coordinate_bbox.ok
             /\ IsEnvelopeOf(coordinate_bbox.bbox, PositionsIn(geojson_coordinates), d)

\* two 3-wide positions in a nested list: the bounds of the envelope returned
\* come from different positions
C12_Witness ==
    /\ coordinate_bbox.called
    /\ coordinate_bbox.ok
    /\ geojson_coordinates \notin PositionLists
    /\ PositionsIn(geojson_coordinates) = {<<10, 20, 5>>, <<-50, 60, 9>>}
    /\ coordinate_bbox.bbox = <<-50, 20, 5, 10, 60, 9>>

\* C13: get_bbox_from_coordinates raises ValueError, and returns no envelope,
\* whenever its input holds a position that is neither 2 nor 3 wide, holds
\* positions of different widths, or holds no position at all.
C13_DimensionalityError ==
    (/\ coordinate_bbox.called
     /\ \/ PositionsIn(geojson_coordinates) = {}
        \/ \E p \in PositionsIn(geojson_coordinates) :
              Len(p) \notin {TWO_DIMENSIONAL, THREE_DIMENSIONAL}
        \/ \E p, q \in PositionsIn(geojson_coordinates) : Len(p) # Len(q))
    => ~coordinate_bbox.ok

-----------------------------------------------------------------------------
(* C14: the CRSs of a request *)

\* the CRS a string of the request names
NamedCrs(crs_str) ==
    CHOOSE c \in CRSs : split_auth_code(c) = <<crs_str.auth, crs_str.code>>

\* the CRS named by the crs member of the body, by its URN
BodyCrs ==
    IF body.type = "FeatureCollection" /\ body.crs # NoCrs
    THEN {c \in CRSs : body.crs = GeoJsonCrs(c)}
    ELSE {}

EffectiveSource ==
    IF BodyCrs # {} THEN BodyCrs
    ELSE IF query_source_crs # NoneStr THEN {NamedCrs(query_source_crs)}
    ELSE IF content_crs # NoneStr THEN {NamedCrs(content_crs)}
    ELSE {}

EffectiveTarget ==
    IF query_target_crs # NoneStr THEN {NamedCrs(query_target_crs)}
    ELSE IF accept_crs # NoneStr THEN {NamedCrs(accept_crs)}
    ELSE {}

\* C14: the source CRS of a request is the CRS of the body if it carries one,
\* else the source-crs query parameter, else the content-crs header; the
\* target CRS is the target-crs query parameter, else the accept-crs header;
\* when either cannot be resolved the request fails with a request validation
\* error and nothing has been transformed.
C14_EffectiveCrss ==
    crss.called
    => IF EffectiveSource = {} \/ EffectiveTarget = {}
       THEN /\ ~crss.ok
            /\ crss.error = RequestValidationError
            /\ body_t = NoBody
       ELSE /\ crss.ok
            /\ EffectiveSource = {crss.s_crs}
            /\ EffectiveTarget = {crss.t_crs}

\* a FeatureCollection tagged EPSG:9286 was posted with another source-crs, a
\* content-crs header and an accept-crs header only: the body's CRS and the
\* header's target were taken, and the body was transformed
C14_Witness ==
    /\ body.type = "FeatureCollection"
    /\ body.crs = GeoJsonCrs("EPSG:9286")
    /\ query_source_crs = auth_code_str("EPSG:28992")
    /\ content_crs = format_as_uri("EPSG:4258")
    /\ query_target_crs = NoneStr
    /\ accept_crs = format_as_uri("EPSG:7931")
    /\ crss.ok
    /\ crss.s_crs = "EPSG:9286"
    /\ crss.t_crs = "EPSG:7931"
    /\ body_t # NoBody

-----------------------------------------------------------------------------
(* C15: the calls of densify_request_body *)

\* the errors with which the bbox check, a transformation or the library
\* refuses a request
DensifyRefusals == {DeviationOutOfBboxError, TransformationNotPossibleError, DensifyError}

LibraryCalls == {i \in 1..Len(densify_calls) : densify_calls[i].op = "densify_geojson_object"}

\* C15: densify_request_body, unless the bbox check, a transformation or the
\* library refuses the request, calls the densification library exactly once;
\* from a source CRS that is not a densification CRS the calls are, in this
\* order, crs_transform of the body from the source to the densification CRS,
\* the densification of its result, crs_transform of the densified result
\* back to the source; from a densification CRS there is no crs_transform and
\* the library is given the body itself.
C15_DensifyCallOrder ==
    (densified.called /\ densified.error \notin DensifyRefusals)
    => /\ Cardinality(LibraryCalls) = 1
       /\ source_crs \notin {DENSIFY_CRS_2D, DENSIFY_CRS_3D}
          => /\ Len(densify_calls) = 3
             /\ densify_calls[1] = CrsTransformCall("body", source_crs, densify_crs(source_crs))
             /\ densify_calls[2].op = "densify_geojson_object"
             /\ densify_calls[2].arg = "body_t"
             /\ densify_calls[3] = CrsTransformCall("body_t_d", densify_crs(source_crs), source_crs)
       /\ source_crs \in {DENSIFY_CRS_2D, DENSIFY_CRS_3D}
          => /\ Len(densify_calls) = 1
             /\ densify_calls[1].op = "densify_geojson_object"
             /\ densify_calls[1].arg = "body"

-----------------------------------------------------------------------------
(* C16: the selection is deterministic *)

-----------------------------------------------------------------------------
(* C17: candidates are resolved when the function is built *)

\* C17: once get_transform_crs_fun has built a transform function, applying
\* it to a position makes no call of get_transformer, on the single candidate
\* path and on the split path alike: the candidates are resolved at most once.
C17_NoSelectionPerPosition ==
    [][(ApplyTransformCrs \/ ApplyTransformCompoundCrs) => selections' = selections]_vars

-----------------------------------------------------------------------------
(* C18: the tuple handed to the transform primitive *)

\* C18: the tuple a transform function hands to a candidate's primitive, on
\* the single candidate path and on the split path alike, starts with the
\* ordinates of the position unchanged; with an epoch it is 4 long with the
\* epoch 4th, a 2D position being given the height 0 before it, so the epoch
\* is never in the height slot; without an epoch nothing but a null
\* placeholder follows the ordinates.
C18_EpochFourthOrdinate ==
    result.ok
    => /\ Len(result.input) >= Len(val)
       /\ Prefix(result.input, Len(val)) = val
       /\ epoch # None
          => /\ Len(result.input) = 4
             /\ result.input[4] = epoch
             /\ Len(val) = TWO_DIMENSIONAL => result.input[3] = 0
       /\ epoch = None
          => \A k \in (Len(val) + 1)..Len(result.input) : result.input[k] = None

-----------------------------------------------------------------------------
(* C19: what the compound transform returns *)

\* C19: transform_compound_crs returns x and y as the horizontal candidate
\* computed them and the height as the vertical candidate computed it, both
\* from the one input tuple: no x or y comes from the vertical candidate and
\* no height from the horizontal one.
C19_CompoundTakesHorizontalAndVertical ==
    (fn.path = "compound" /\ result.ok)
    => /\ result.position[1] = my_round(primitive(raw, result.input)[1], precision)
       /\ result.position[2] = my_round(primitive(raw, result.input)[2], precision)
       /\ IF Len(result.input) >= THREE_DIMENSIONAL
          THEN /\ Len(result.position) = 3
               /\ result.position[3] =
                      my_round(primitive(raw_v, result.input)[3], HEIGHT_DIGITS_FOR_ROUNDING)
          ELSE Len(result.position) = 2

\* the two candidates computed different x, y and height for a 3D position:
\* x and y returned are the horizontal candidate's, the height is the
\* vertical candidate's
C19_Witness ==
    /\ fn.path = "compound" /\ result.ok
    /\ val = <<1000, 2000, 3000>>
    /\ raw = <<555555555, 444444444, 50000>>
    /\ raw_v = <<123456789, 234567891, 345678912>>
    /\ precision = None
    /\ result.position = <<555555555, 444444444, 346000000>>

-----------------------------------------------------------------------------
(* C20: a leg the splitter does not find *)

MissingHorizontal == last_with_axes(source_crs, HORIZONTAL_AXIS_LENGTH) = 0
MissingVertical == last_with_axes(source_crs, VERTICAL_AXIS_LENGTH) = 0

-----------------------------------------------------------------------------
(* C21: the legs of a compound CRS *)

\* the sub-CRSs of a CRS that have n axes
SubCrssWithAxes(crs, n) ==
    {ProjDb[crs].sub_crs_list[k] : k \in {j \in 1..Len(ProjDb[crs].sub_crs_list) :
                                            ProjDb[ProjDb[crs].sub_crs_list[j]].axes = n}}

\* C21: get_individual_crs_from_compound returns as horizontal the sub-CRS
\* with exactly 2 axes and as vertical the sub-CRS with exactly 1 axis; for a
\* CRS without sub-CRSs it returns the CRS itself for both legs.
C21_LegsOfCompound ==
    legs.called
    => IF ProjDb[source_crs].sub_crs_list = <<>>
       THEN legs.horizontal = source_crs /\ legs.vertical = source_crs
       ELSE /\ SubCrssWithAxes(source_crs, 2) = {legs.horizontal}
            /\ SubCrssWithAxes(source_crs, 1) = {legs.vertical}

\* the splitter was called on EPSG:7415 and returned (EPSG:28992, EPSG:5709)
C21_Witness ==
    /\ legs.called
    /\ source_crs = "EPSG:7415"
    /\ legs.horizontal = "EPSG:28992"
    /\ legs.vertical = "EPSG:5709"

-----------------------------------------------------------------------------
(* C22: which path the factory takes *)

\* C22: get_transform_crs_fun takes the split path if and only if the target
\* CRS is compound and the source CRS is not geocentric; for every other
\* pair it takes the single candidate path, on which it selects nothing.
C22_SplitPathCondition ==
    fn # NoFunction
    => IF ProjDb[target_crs].is_compound /\ ~ProjDb[source_crs].is_geocentric
       THEN fn.path = "compound"
       ELSE /\ fn.path = "simple"
            /\ fn.ok
            /\ fn.h_transformer = NoResult
            /\ fn.v_transformer = NoResult

\* a geocentric source with a compound target took the single candidate path
C22_Witness ==
    /\ fn.path = "simple"
    /\ source_crs = "EPSG:7930"
    /\ target_crs = "EPSG:7415"

-----------------------------------------------------------------------------
(* Specification of needs_epoch: one call on any candidate *)

\* every variable of the selector, the factory, the handler and the walker
\* before anything is called
CoreIdle ==
    /\ source_crs = "EPSG:28992"
    /\ target_crs = "EPSG:4258"
    /\ epoch = None
    /\ precision = None
    /\ tfg = NotCalled
    /\ selected = NoResult
    /\ tfg_h = NotCalled
    /\ tfg_v = NotCalled
    /\ fn = NoFunction
    /\ val = NoPosition
    /\ raw = NoRaw
    /\ raw_v = NoRaw
    /\ result = NoOutput
    /\ response = NoResponse
    /\ GeoIdle

InitEpoch ==
    /\ CoreIdle
    /\ CrssIdle /\ DensifyIdle /\ CallIdle
    /\ selections = 0 /\ applications = 0 /\ legs = NoLegs
    /\ candidate \in EpochCandidates(MaxOperations)
    /\ has_epoch = NoAnswer
    /\ PostIdle
    /\ LimitIdle
    /\ TimeoutIdle

NeedsEpoch ==
    /\ ~has_epoch.called
    /\ has_epoch' = Answer(needs_epoch(candidate))
    /\ UNCHANGED <<source_crs, target_crs, epoch, tfg, selected, tfg_h, tfg_v, fn,
                   precision, val, raw, raw_v, result, response, geoVars,
                   crssVars, densifyVars, callVars, countVars, splitVars, candidate,
                   postVars, limitVars, timeoutVars>>

NextEpoch == NeedsEpoch

SpecEpoch == InitEpoch /\ [][NextEpoch]_vars

-----------------------------------------------------------------------------
(* C23: when a candidate is time-dependent *)

-----------------------------------------------------------------------------
(* C24: the rounding of the height *)

\* the height the candidate computed: the vertical candidate's on the split
\* path, the selected candidate's on the single candidate path
RawHeight == IF fn.path = "compound" THEN raw_v[3] ELSE raw[3]

\* C24: when the output has a height, the height returned is the raw height
\* rounded to HEIGHT_DIGITS_FOR_ROUNDING digits whatever the precision
\* argument is, and x and y are the raw x and y rounded to the precision.
C24_HeightRoundedToFixedDigits ==
    (result.ok /\ Len(result.position) >= 3)
    => /\ result.position[3] = my_round(RawHeight, HEIGHT_DIGITS_FOR_ROUNDING)
       /\ result.position[1] = my_round(raw[1], precision)
       /\ result.position[2] = my_round(raw[2], precision)

-----------------------------------------------------------------------------
(* C25: the bound check on the target's axis count *)

\* C25: applied on the single candidate path, the transform function fails
\* whenever the target CRS of the selected candidate has neither 2 nor 3
\* axes; for such a target it returns no position.
C25_TargetDimensionChecked ==
    (fn.path = "simple" /\ result # NoOutput /\ axis_count(target_crs) \notin {2, 3})
    => ~result.ok

-----------------------------------------------------------------------------
(* Specification of density_check_request_body: one call, on the bodies and  *)
(* source CRSs of the densification specification.                           *)

DensityCheckRequestBody ==
    /\ ~densified.called
    /\ \E bbox_check \in BboxChecks, answers \in DensityCheckAnswers :
          /\ densify_calls' = density_check_request_body(body, source_crs, max_segment_deviation,
                                                         bbox_check, answers).calls
          /\ densified' = density_check_request_body(body, source_crs, max_segment_deviation,
                                                     bbox_check, answers).outcome
    /\ UNCHANGED <<selectorVars, geoVars, crssVars, max_segment_deviation, callVars, countVars, splitVars, laterVars>>

NextDensityCheck == DensityCheckRequestBody

SpecDensityCheck == InitDensify /\ [][NextDensityCheck]_vars

-----------------------------------------------------------------------------
(* C26: the density check report *)

DensityCheckRefusals == {DeviationOutOfBboxError, TransformationNotPossibleError, GeodenseError}

\* C26: unless the geometry validation, the bbox check, a transformation or
\* the library refuses the request, density_check_request_body returns the
\* library's report in the source CRS for every source CRS: from a source
\* CRS that is not a densification CRS it transforms the body in, has it
\* checked and transforms the report back; from a densification CRS it has
\* the body itself checked and returns the report, without raising.
C26_DensityCheckReport ==
    (densified.called /\ densified.error \notin DensityCheckRefusals)
    => /\ densified.ok
       /\ source_crs \notin {DENSIFY_CRS_2D, DENSIFY_CRS_3D}
          => /\ Len(densify_calls) = 3
             /\ densify_calls[1] = CrsTransformCall("body", source_crs, densify_crs(source_crs))
             /\ densify_calls[2] = DensityCheckCall("body_t")
             /\ densify_calls[3] = CrsTransformCall("failed_line_segments",
                                                    densify_crs(source_crs), source_crs)
             /\ densified.value = "failed_line_segments_t"
       /\ source_crs \in {DENSIFY_CRS_2D, DENSIFY_CRS_3D}
          => /\ Len(densify_calls) = 1
             /\ densify_calls[1] = DensityCheckCall("body")
             /\ densified.value = "failed_line_segments"

-----------------------------------------------------------------------------
(* Specification of POST /transform: one request with a GeoJSON body, with   *)
(* and without the density check.                                            *)

InitPost ==
    /\ source_crs \in {"EPSG:28992", "EPSG:7415", DENSIFY_CRS_3D}
    /\ target_crs \in {"EPSG:4258", "EPSG:9286"}
    /\ epoch \in Epochs
    /\ precision = None
    /\ tfg = NotCalled
    /\ selected = NoResult
    /\ tfg_h = NotCalled
    /\ tfg_v = NotCalled
    /\ fn = NoFunction
    /\ val = NoPosition
    /\ raw = NoRaw
    /\ raw_v = NoRaw
    /\ result = NoOutput
    /\ response = NoResponse
    /\ callback = "none"
    /\ geojson_coordinates = NoCoordinates
    /\ traversed = NoTraversal
    /\ body \in {LineString2D(b) : b \in Bboxes}
    /\ body_t = NoBody
    /\ coordinate_bbox = NoEnvelope
    /\ CrssIdle
    /\ max_segment_deviation \in Deviations
    /\ densify_calls = <<>>
    /\ densified = NoDensified
    /\ CallIdle
    /\ selections = 0 /\ applications = 0 /\ legs = NoLegs
    /\ EpochIdle
    /\ LimitIdle
    /\ TimeoutIdle
    /\ density_check \in BOOLEAN
    /\ post = NoPost

PostTransformGeojson ==
    /\ ~post.called
    /\ \E bbox_check \in BboxChecks, answers \in DensityCheckAnswers, more \in PostAnswers :
          post' = post_transform(body, source_crs, target_crs, epoch, density_check,
                                 max_segment_deviation, bbox_check, answers, more)
    /\ UNCHANGED <<selectorVars, geoVars, crssVars, densifyVars, callVars, countVars, splitVars,
                   epochVars, density_check, limitVars, timeoutVars>>

NextPost == PostTransformGeojson

SpecPost == InitPost /\ [][NextPost]_vars

-----------------------------------------------------------------------------
(* C27: the density check and the transformation of a POST request *)

\* C27: the density check is made before the transformation and on a copy:
\* a request whose check reports failed segments fails with
\* DensityCheckFailedError and its body is not transformed; a request that
\* is answered has had its body transformed from the source to the target
\* CRS and nothing else, which is what the request without the density
\* check is answered with.
C27_DensityCheckBeforeTransform ==
    post.called
    => /\ \A i, j \in 1..Len(post.events) :
             (post.events[i] = "density_check_request_body" /\ post.events[j] = "crs_transform")
             => i < j
       /\ post.error = DensityCheckFailedError => post.body = <<>>
       /\ post.status = "ok" => post.body = <<<<source_crs, target_crs>>>>

\* a request with the density check whose check transformed its copy into
\* the densification CRS and passed: the body was transformed once
C27_Witness ==
    /\ post.called /\ density_check
    /\ post.status = "ok"
    /\ post.headers.density_check_result = "success"
    /\ post.d_body = <<<<source_crs, densify_crs(source_crs)>>>>
    /\ post.body = <<<<source_crs, target_crs>>>>

-----------------------------------------------------------------------------
(* C30: the headers of a successful /transform response *)

\* C30: every successful /transform response, of GET and of POST, has a
\* content-crs header whose value is the target CRS as AUTH:CODE, and an
\* epoch header if and only if the request had an epoch.
C30_ResponseHeaders ==
    /\ response.status = "ok"
       => /\ response.headers.content_crs = to_authority(target_crs)
          /\ response.headers.epoch # None <=> epoch # None
    /\ post.status = "ok"
       => /\ post.headers.content_crs = to_authority(target_crs)
          /\ post.headers.epoch # None <=> epoch # None

-----------------------------------------------------------------------------
(* Specification of the size limit middleware: two requests in flight, their *)
(* messages arriving in any interleaving.                                    *)

InitLimit ==
    /\ CoreIdle
    /\ CrssIdle /\ DensifyIdle /\ CallIdle
    /\ selections = 0 /\ applications = 0 /\ legs = NoLegs
    /\ EpochIdle /\ PostIdle /\ TimeoutIdle
    /\ max_content_size \in Limits
    /\ scope_type \in [Requests -> {"http", "websocket"}]
    /\ consumed = [r \in Requests |-> <<>>]
    /\ passed = [r \in Requests |-> <<>>]
    /\ received = [r \in Requests |-> 0]
    /\ rejected = [r \in Requests |-> FALSE]

\* the app of request r awaits receive(): a message that inner() returns
ReceivePasses(r) ==
    /\ ~rejected[r]
    /\ Len(consumed[r]) < MaxChunks
    /\ \E message \in MessagesOf(scope_type[r]) :
          /\ received' = IF counts(scope_type[r], message, max_content_size)
                         THEN counter_added(received, r, message.body)
                         ELSE received
          /\ ~(counts(scope_type[r], message, max_content_size)
                /\ received'[r] > max_content_size)
          /\ consumed' = [consumed EXCEPT ![r] = Append(@, message)]
          /\ passed' = [passed EXCEPT ![r] = Append(@, message)]
    /\ UNCHANGED <<selectorVars, geoVars, crssVars, densifyVars, callVars, countVars, splitVars,
                   epochVars, postVars, max_content_size, scope_type, rejected, timeoutVars>>

\* the app of request r awaits receive(): inner() raises HTTPException(413)
ReceiveRaises(r) ==
    /\ ~rejected[r]
    /\ Len(consumed[r]) < MaxChunks
    /\ \E message \in MessagesOf(scope_type[r]) :
          /\ counts(scope_type[r], message, max_content_size)
          /\ received' = counter_added(received, r, message.body)
          /\ received'[r] > max_content_size
          /\ consumed' = [consumed EXCEPT ![r] = Append(@, message)]
          /\ rejected' = [rejected EXCEPT ![r] = TRUE]
    /\ UNCHANGED <<selectorVars, geoVars, crssVars, densifyVars, callVars, countVars, splitVars,
                   epochVars, postVars, max_content_size, scope_type, passed, timeoutVars>>

NextLimit ==
    \/ \E r \in Requests : ReceivePasses(r)
    \/ \E r \in Requests : ReceiveRaises(r)

SpecLimit == InitLimit /\ [][NextLimit]_vars

-----------------------------------------------------------------------------
(* C28: the size limit is kept per request *)

\* the body bytes of the first n messages a request has received
RECURSIVE BodyBytes(_, _)
BodyBytes(messages, n) ==
    IF n = 0 THEN 0
    ELSE BodyBytes(messages, n - 1)
         + (IF messages[n].type = "http.request" THEN messages[n].body ELSE 0)

\* C28: with a limit M an HTTP request is rejected with 413 exactly at the
\* first body chunk with which the body bytes received for that request
\* exceed M, and a request whose body bytes are at most M is not rejected,
\* whatever other requests receive in between; with no limit, and for a
\* scope that is not HTTP, every message is passed on unchanged.
C28_LimitPerRequest ==
    \A r \in Requests :
        IF max_content_size # None /\ scope_type[r] = "http"
        THEN /\ rejected[r] <=> BodyBytes(consumed[r], Len(consumed[r])) > max_content_size
             /\ rejected[r]
                => /\ BodyBytes(consumed[r], Len(consumed[r]) - 1) <= max_content_size
                   /\ passed[r] = SubSeq(consumed[r], 1, Len(consumed[r]) - 1)
             /\ ~rejected[r] => passed[r] = consumed[r]
        ELSE ~rejected[r] /\ passed[r] = consumed[r]

\* r1 was rejected at its second chunk, 2 + 2 bytes against a limit of 3,
\* while r2 had received 3 bytes in between and was not rejected
C28_Witness ==
    /\ max_content_size = 3
    /\ rejected["r1"] /\ ~rejected["r2"]
    /\ Len(consumed["r1"]) = 2
    /\ consumed["r1"][1].body = 2 /\ consumed["r1"][2].body = 2
    /\ BodyBytes(consumed["r2"], Len(consumed["r2"])) = 3
    /\ passed["r2"] = consumed["r2"]

-----------------------------------------------------------------------------
(* Specification of the timeout middleware: one request.                     *)

InitTimeout ==
    /\ CoreIdle
    /\ CrssIdle /\ DensifyIdle /\ CallIdle
    /\ selections = 0 /\ applications = 0 /\ legs = NoLegs
    /\ EpochIdle /\ PostIdle /\ LimitIdle
    /\ timeout_seconds \in 1..MaxTimeout
    /\ clock = 0
    /\ handler = "awaiting"
    /\ computed_at = None
    /\ handler_response = None
    /\ dispatched = <<>>

TimeoutFrame ==
    UNCHANGED <<selectorVars, geoVars, crssVars, densifyVars, callVars, countVars, splitVars,
                epochVars, postVars, limitVars, timeout_seconds>>

\* time passes while call_next awaits the request
Tick ==
    /\ handler = "awaiting" /\ dispatched = <<>>
    /\ clock < timeout_seconds
    /\ clock' = clock + 1
    /\ TimeoutFrame
    /\ UNCHANGED <<handler, computed_at, handler_response, dispatched>>

\* the timer of wait_for is served while call_next awaits: call_next is
\* cancelled, wait_for raises TimeoutError, dispatch returns the 504 response
TimeoutWhileAwaiting ==
    /\ handler = "awaiting" /\ dispatched = <<>>
    /\ clock >= timeout_seconds
    /\ handler' = "cancelled"
    /\ dispatched' = <<GATEWAY_TIMEOUT>>
    /\ TimeoutFrame
    /\ UNCHANGED <<clock, computed_at, handler_response>>

\* the handler is called and computes for d ticks without awaiting: the loop
\* serves nothing else until the handler has returned its response
HandlerRuns ==
    /\ handler = "awaiting" /\ dispatched = <<>>
    /\ clock < timeout_seconds
    /\ \E d \in 0..MaxDuration, status \in HandlerResponses :
          /\ clock' = clock + d
          /\ computed_at' = clock + d
          /\ handler_response' = status
    /\ handler' = "returned"
    /\ TimeoutFrame
    /\ UNCHANGED <<dispatched>>

\* call_next returns the handler's response before the timer is due
ResponseInTime ==
    /\ handler = "returned" /\ dispatched = <<>>
    /\ clock < timeout_seconds
    /\ dispatched' = <<handler_response>>
    /\ TimeoutFrame
    /\ UNCHANGED <<clock, handler, computed_at, handler_response>>

\* the handler has returned and the timer is due: the loop serves the timer
\* before call_next is done, wait_for raises TimeoutError
TimeoutAfterHandler ==
    /\ handler = "returned" /\ dispatched = <<>>
    /\ clock >= timeout_seconds
    /\ dispatched' = <<GATEWAY_TIMEOUT>>
    /\ TimeoutFrame
    /\ UNCHANGED <<clock, handler, computed_at, handler_response>>

\* the handler has returned and the timer is due: call_next is done when
\* wait_for is resumed, which then returns its result
ResponseAfterTimeout ==
    /\ handler = "returned" /\ dispatched = <<>>
    /\ clock >= timeout_seconds
    /\ dispatched' = <<handler_response>>
    /\ TimeoutFrame
    /\ UNCHANGED <<clock, handler, computed_at, handler_response>>

NextTimeout ==
    \/ Tick
    \/ TimeoutWhileAwaiting
    \/ HandlerRuns
    \/ ResponseInTime
    \/ TimeoutAfterHandler
    \/ ResponseAfterTimeout

SpecTimeout == InitTimeout /\ [][NextTimeout]_vars

-----------------------------------------------------------------------------
(* C29: what the timeout middleware dispatched *)

\* C29: a request gets exactly one response: the handler's own when the
\* handler has returned within timeout_seconds, and otherwise the 504
\* response, the handler's computation being abandoned before its end.
C29_TimeoutAbandonsHandler ==
    /\ Len(dispatched) <= 1
    /\ dispatched # <<>>
       => IF computed_at # None /\ computed_at < timeout_seconds
          THEN dispatched = <<handler_response>>
          ELSE /\ dispatched = <<GATEWAY_TIMEOUT>>
               /\ handler # "returned"

=============================================================================
